---- MODULE Spec2Model ----
(***************************************************************************)
(* Model of the Polymarket ingestion pipeline (bademirci/prediction-       *)
(* markets): the ClickHouseWriter buffers and flushes, the                  *)
(* PolymarketWebSocket connection loop and event handlers, and the          *)
(* orchestrator's _run_websocket, _sync_markets, _run_flusher and           *)
(* callbacks.  SpecWriter, SpecWS and SpecPipe run the three parts,         *)
(* SpecListen the listen loop, SpecOrch start() and stop() around the       *)
(* four tasks (SpecOrchLive with a fair event loop), and SpecResync the     *)
(* periodic market sync while the pipeline runs, and SpecFetch one call     *)
(* of PolymarketRestClient.fetch_active_markets (SpecFetchLive with the     *)
(* pending request bound to end).                                           *)
(*                                                                          *)
(* A Python dict is a TLA+ function from key strings to values, so that a   *)
(* subscript d['k'] on a missing key (KeyError) and d.get('k') are          *)
(* different things.  An optional float is <<>> (None) or <<v>>.            *)
(*                                                                          *)
(* All tasks run on one asyncio event loop: a coroutine is atomic between   *)
(* two suspension points.  asyncio.Lock.acquire() on a free lock does not   *)
(* suspend, and no critical section of the writer contains an await, so     *)
(* every buffer_* and flush_* call runs to completion without interleaving. *)
(***************************************************************************)
EXTENDS Integers, Sequences, FiniteSets, TLC

\* ------------------------------------------------------------------ bounds
MaxAdds == 3
MaxFailures == 8
MaxSent == 2
MaxTokens == 2
MaxFrames == 1
MaxSyncs == 1
MaxListen == 2
MaxResyncs == 3
MaxPages == 3

\* ------------------------------------------------------------ writer state
VARIABLES trade_buffer, orderbook_levels_buffer, market_buffer,
          inserts, flushed, added

writerVars == <<trade_buffer, orderbook_levels_buffer, market_buffer,
                inserts, flushed, added>>

\* ------------------------------------------------- PolymarketWebSocket state
\* ws_running, ws, subscribed_tokens, reconnect_delay are the object's fields
\* (_running, _ws, _subscribed_tokens, _reconnect_delay).  pc is the position
\* of the connect() coroutine, rw_pc that of PolymarketIngestion._run_websocket
\* and lt_pc that of the listen task _run_websocket creates.  The rest records
\* what happened: the subscribe messages sent on the current transport, whether
\* a frame was handled on it before any subscribe, the consecutive failures
\* since the last successful connect, the delay last slept and where the
\* connection was when close() was called.
VARIABLES ws_running, ws, subscribed_tokens, reconnect_delay, pc,
          rw_pc, rw_i, token_ids, successful_batches, failed_batches, lt_pc,
          sent, early_frame, failures, slept, close_at, connects

wsVars == <<ws_running, ws, subscribed_tokens, reconnect_delay, pc,
            rw_pc, rw_i, token_ids, successful_batches, failed_batches, lt_pc,
            sent, early_frame, failures, slept, close_at, connects>>

\* ------------------------------------------------- PolymarketIngestion state
\* markets, token_to_market and stats are the orchestrator's fields (_markets,
\* _token_to_market, _stats); now is the wall clock in milliseconds.  last
\* records the handling of the latest frame: the frame, when it was received,
\* the dicts handed to on_trade and on_book, and the exception the listen loop
\* caught.  frames and syncs count the frames handled and the syncs run.
VARIABLES markets, token_to_market, stats, now, last, frames, syncs

pipeVars == <<markets, token_to_market, stats, now, last, frames, syncs>>

\* --------------------------------------- PolymarketIngestion start() / stop()
\* orch_running is the orchestrator's _running, ws_client whether self.ws_client
\* has been created, client the writer's ClickHouse client ("none" before
\* connect()), http_client the REST client's httpx client, category_filter the
\* configured filter ("" for None).  start_pc and stop_pc are the positions of
\* the start() and stop() coroutines, tasks those of the flush, resync and
\* stats loops start() creates (the position of the fourth task,
\* _run_websocket, is rw_pc), sub_ids the token_ids start() hands to
\* _run_websocket.  shutdown lists the steps stop() has completed and
\* fetch_error tells whether the latest _sync_markets ended in its except
\* clause.
VARIABLES orch_running, start_pc, stop_pc, ws_client, client, http_client, tasks,
          sub_ids, category_filter, shutdown, fetch_error

orchVars == <<orch_running, start_pc, stop_pc, ws_client, client, http_client, tasks,
              sub_ids, category_filter, shutdown, fetch_error>>

\* ------------------------------- PolymarketRestClient.fetch_active_markets
\* limit is the argument of the call in flight, offset and all_markets_raw its
\* locals (a page is the block <<lo, hi>> of the positions lo..hi of the
\* listing), markets_raw the number of markets it returns; fetch_pc is the
\* position of the coroutine, listing the number of markets the API lists and
\* requested the offsets asked for so far.
VARIABLES fetch_pc, limit, listing, offset, all_markets_raw, requested,
          markets_raw

fetchVars == <<fetch_pc, limit, listing, offset, all_markets_raw, requested,
               markets_raw>>

vars == <<writerVars, wsVars, pipeVars, orchVars, fetchVars>>

\* ------------------------------------------------------------- dict helpers
None == <<>>
Some(v) == <<v>>

HasKeys(d, ks) == ks \subseteq DOMAIN d

Get(d, k, default) == IF k \in DOMAIN d THEN d[k] ELSE default

\* -------------------------------------------------------------- JSON values
\* A JSON scalar of an event: a number or a string, by what Python's float(),
\* int(), str.isdigit() and datetime.fromisoformat() do with it.  Prices and
\* sizes are counted in hundredths, times in milliseconds.
Num(n) == [t |-> "int", v |-> n]
Digits(n) == [t |-> "digits", v |-> n]
DecStr(c) == [t |-> "decimal", v |-> c]
Iso(ms) == [t |-> "iso", v |-> ms]
Text == [t |-> "text", v |-> 0]

\* bool(x)
Truthy(x) == IF x.t = "int" THEN x.v # 0 ELSE TRUE

\* float(x): whether it returns, and what (in hundredths)
FloatOk(x) == x.t \in {"int", "digits", "decimal"}

Float(x) == IF x.t = "decimal" THEN x.v ELSE 100 * x.v

\* d.get(k) as an optional
GetOpt(d, k) == IF k \in DOMAIN d THEN Some(d[k]) ELSE None

\* a or b, on optionals
Or(a, b) == IF a # None /\ Truthy(a[1]) THEN a ELSE b

\* ------------------------------------------------ PolymarketWebSocket handlers
MaxLevels == 3

\* event.get('event_type') or event.get('type'); "" stands for None
EventTypeOf(event) ==
  LET a == Get(event, "event_type", "") IN
  IF a # "" THEN a ELSE Get(event, "type", "")

\* The branch _handle_event takes.
Classify(event) ==
  LET ty == EventTypeOf(event) IN
  IF ty \in {"trade", "last_trade_price"} THEN "trade"
  ELSE IF ty = "price_change" THEN "price_change"
  ELSE IF ty = "book" THEN "book"
  ELSE IF ty \in {"subscribed", "connected"} THEN "info"
  ELSE "unknown"

\* The timestamp _handle_trade parses: whether parsing returns, and the time.
TsValue(event) == Or(GetOpt(event, "timestamp"), GetOpt(event, "ts"))

TsOk(event) ==
  LET x == TsValue(event) IN
  x = None \/ ~Truthy(x[1]) \/ x[1].t \in {"int", "digits", "iso"}

TsOf(event, tnow) ==
  LET x == TsValue(event) IN
  IF x = None \/ ~Truthy(x[1]) THEN tnow ELSE x[1].v

\* _handle_trade: the dict handed to on_trade, or the exception raised.
handle_trade(event, tnow) ==
  LET price == Get(event, "price", Num(0))
      size == Get(event, "size", Num(0))
      ts == TsOf(event, tnow)
  IN
  IF ~TsOk(event) \/ ~FloatOk(price) \/ ~FloatOk(size)
  THEN [error |-> "ValueError", trade |-> None]
  ELSE [error |-> "none",
        trade |-> Some(
          [ts |-> ts,
           market_id |-> Get(event, "market", Get(event, "condition_id", "")),
           condition_id |-> Get(event, "condition_id", Get(event, "market", "")),
           token_id |-> Get(event, "asset_id", Get(event, "asset", "")),
           side |-> Get(event, "side", "UNKNOWN"),
           price |-> Float(price),
           size |-> Float(size),
           outcome |-> Get(event, "outcome", ""),
           outcome_index |-> Get(event, "outcome_index", 0),
           trade_id |-> Get(event, "id", Get(event, "trade_id", <<"ts", ts>>)),
           maker_address |-> GetOpt(event, "maker"),
           taker_address |-> Get(event, "taker", ""),
           source |-> "websocket"])]

\* One entry of event['bids'] / event['asks'] (a dict): its price and size as
\* optionals, and whether float() raises on it.
EntryOk(entry) ==
  /\ ("price" \in DOMAIN entry /\ Truthy(entry.price)) => FloatOk(entry.price)
  /\ ("size" \in DOMAIN entry /\ Truthy(entry.size)) => FloatOk(entry.size)

EntryPrice(entry) ==
  IF "price" \in DOMAIN entry /\ Truthy(entry.price)
  THEN Some(Float(entry.price)) ELSE None

EntrySize(entry) ==
  IF "size" \in DOMAIN entry /\ Truthy(entry.size)
  THEN Some(Float(entry.size)) ELSE None

\* parsed_bids / parsed_asks: the entries with a price and a size
RECURSIVE Parsed(_)
Parsed(entries) ==
  IF entries = <<>> THEN <<>>
  ELSE LET e == Head(entries) IN
       IF EntryPrice(e) # None /\ EntrySize(e) # None
       THEN <<[price |-> EntryPrice(e)[1], size |-> EntrySize(e)[1]]>>
            \o Parsed(Tail(entries))
       ELSE Parsed(Tail(entries))

\* list.sort(key=price, reverse=True) and list.sort(key=price): both stable
RECURSIVE InsertDesc(_, _)
InsertDesc(sorted, x) ==
  IF sorted = <<>> THEN <<x>>
  ELSE IF Head(sorted).price >= x.price
  THEN <<Head(sorted)>> \o InsertDesc(Tail(sorted), x)
  ELSE <<x>> \o sorted

RECURSIVE InsertAsc(_, _)
InsertAsc(sorted, x) ==
  IF sorted = <<>> THEN <<x>>
  ELSE IF Head(sorted).price <= x.price
  THEN <<Head(sorted)>> \o InsertAsc(Tail(sorted), x)
  ELSE <<x>> \o sorted

RECURSIVE SortDesc(_)
SortDesc(s) ==
  IF s = <<>> THEN <<>>
  ELSE InsertDesc(SortDesc(SubSeq(s, 1, Len(s) - 1)), s[Len(s)])

RECURSIVE SortAsc(_)
SortAsc(s) ==
  IF s = <<>> THEN <<>>
  ELSE InsertAsc(SortAsc(SubSeq(s, 1, Len(s) - 1)), s[Len(s)])

\* parsed_bids.sort(key=price, reverse=True): best (highest) bid first
sorted_bids_unsorted(parsed) == parsed

sorted_bids(parsed) == SortDesc(parsed)

\* parsed_asks.sort(key=price): best (lowest) ask first
sorted_asks(parsed) == SortAsc(parsed)

Level_off_by_one(event, ts, level, bids, asks) ==
  [ts |-> ts,
   market_id |-> Get(event, "market", ""),
   condition_id |-> Get(event, "market", ""),
   token_id |-> Get(event, "asset_id", ""),
   level |-> level,
   bid_px |-> IF Len(bids) > level THEN Some(bids[level].price) ELSE None,
   bid_sz |-> IF Len(bids) > level THEN Some(bids[level].size) ELSE None,
   ask_px |-> IF Len(asks) > level THEN Some(asks[level].price) ELSE None,
   ask_sz |-> IF Len(asks) > level THEN Some(asks[level].size) ELSE None,
   source |-> "websocket"]

\* The dict appended to 'levels' for one rank.
Level(event, ts, level, bids, asks) ==
  [ts |-> ts,
   market_id |-> Get(event, "market", ""),
   condition_id |-> Get(event, "market", ""),
   token_id |-> Get(event, "asset_id", ""),
   level |-> level,
   bid_px |-> IF Len(bids) >= level THEN Some(bids[level].price) ELSE None,
   bid_sz |-> IF Len(bids) >= level THEN Some(bids[level].size) ELSE None,
   ask_px |-> IF Len(asks) >= level THEN Some(asks[level].price) ELSE None,
   ask_sz |-> IF Len(asks) >= level THEN Some(asks[level].size) ELSE None,
   source |-> "websocket"]

\* _handle_book: the {'bbo', 'levels'} dict handed to on_book, or the exception.
handle_book(event, tnow) ==
  LET bids == Get(event, "bids", <<>>)
      asks == Get(event, "asks", <<>>)
      parsed_bids == sorted_bids(Parsed(bids))
      parsed_asks == sorted_asks(Parsed(asks))
  IN
  IF \E i \in 1..Len(bids) : ~EntryOk(bids[i]) THEN [error |-> "ValueError", book |-> None]
  ELSE IF \E i \in 1..Len(asks) : ~EntryOk(asks[i]) THEN [error |-> "ValueError", book |-> None]
  ELSE [error |-> "none",
        book |-> Some(
          [bbo |-> [ts |-> tnow,
                    market_id |-> Get(event, "market", ""),
                    condition_id |-> Get(event, "market", ""),
                    token_id |-> Get(event, "asset_id", ""),
                    bid_px |-> IF parsed_bids # <<>> THEN Some(parsed_bids[1].price) ELSE None,
                    bid_sz |-> IF parsed_bids # <<>> THEN Some(parsed_bids[1].size) ELSE None,
                    ask_px |-> IF parsed_asks # <<>> THEN Some(parsed_asks[1].price) ELSE None,
                    ask_sz |-> IF parsed_asks # <<>> THEN Some(parsed_asks[1].size) ELSE None,
                    source |-> "websocket"],
           levels |-> [l \in 1..MaxLevels |-> Level(event, tnow, l, parsed_bids, parsed_asks)]])]

\* ----------------------------------------------------------- record shapes
\* Events of the feed.
TradeEvent(id, ts) ==
  [event_type |-> "trade", id |-> <<"id", id>>, asset_id |-> "tok", price |-> DecStr(42),
   size |-> Digits(10), side |-> "BUY", timestamp |-> Digits(ts)]

BookEvent(bids, asks) ==
  [event_type |-> "book", asset_id |-> "tok", market |-> "c1",
   bids |-> bids, asks |-> asks]

Entry(px, sz) == [price |-> DecStr(px), size |-> Digits(sz)]

\* The dict PolymarketWebSocket._handle_trade builds (its single time field is 'ts').
WsTrade(id, ts) == handle_trade(TradeEvent(id, ts), ts).trade[1]

\* A dict with every column flush_trades subscripts.
HftTrade(id, ts) ==
  [exchange_ts |-> ts, local_ts |-> ts, market_id |-> "", condition_id |-> "",
   token_id |-> "tok", side |-> "BUY", price |-> 42, size |-> 1000, outcome |-> "",
   outcome_index |-> 0, trade_id |-> <<"id", id>>, maker_address |-> Some(""),
   taker_address |-> "", source |-> "websocket"]

\* The 'levels' list PolymarketWebSocket._handle_book builds.
WsLevels(bids, asks, ts) == handle_book(BookEvent(bids, asks), ts).book[1].levels

\* One element of the list PolymarketRestClient.fetch_active_markets returns,
\* after _sync_markets has set computed_category.
RestMarket(id) ==
  [market_id |-> id, condition_id |-> id, question |-> "", slug |-> "",
   category |-> "Unknown", outcomes |-> <<>>, clob_token_ids |-> <<>>,
   end_date |-> None, active |-> 1, closed |-> 0, volume_total |-> 0,
   liquidity |-> 0, best_bid |-> 0, best_ask |-> 0, last_trade_price |-> 0,
   computed_category |-> "Unknown"]

\* ------------------------------------------------------------------ flushes
\* Keys flush_trades reads with t['...'] (a missing one raises KeyError).
TradeRequiredKeys ==
  {"exchange_ts", "local_ts", "market_id", "condition_id", "token_id", "side",
   "price", "size", "outcome", "outcome_index", "trade_id"}

LevelRequiredKeys ==
  {"exchange_ts", "local_ts", "market_id", "condition_id", "token_id", "level"}

MarketRequiredKeys ==
  {"outcomes", "market_id", "condition_id", "question", "slug", "category",
   "clob_token_ids"}

\* "Skip levels with no data at all"
AllNull(l) ==
  /\ Get(l, "bid_px", None) = None
  /\ Get(l, "bid_sz", None) = None
  /\ Get(l, "ask_px", None) = None
  /\ Get(l, "ask_sz", None) = None

NotAllNull(l) == ~AllNull(l)

\* The outcome of one flush: the buffer it leaves, the sink call it makes (a
\* sequence of zero or one insert), what it returns and whether it raises.
Outcome(buf, ins, ret, raised, batch) ==
  [buffer |-> buf, insert |-> ins, ret |-> ret, raised |-> raised, batch |-> batch]

\* The statements of a flush that touch the lock, the buffer or the sink, in
\* program order: 'async with self._lock' spans the copy and the clear, and
\* client.insert comes after the block.
FlushSteps_insert_inside == <<"acquire", "copy", "clear", "insert", "release">>

FlushSteps == <<"acquire", "copy", "clear", "release", "insert">>

StepAt(steps, name) == CHOOSE k \in 1..Len(steps) : steps[k] = name

\* Whether the lock is held when client.insert is called.
LockedAtInsert ==
  /\ StepAt(FlushSteps, "acquire") < StepAt(FlushSteps, "insert")
  /\ StepAt(FlushSteps, "insert") < StepAt(FlushSteps, "release")

\* One call of client.insert
Insert(table, rows, ok) ==
  [table |-> table, rows |-> rows, ok |-> ok, locked |-> LockedAtInsert]

\* What a buffer holds when a flush leaves 'async with self._lock': the copy
\* has been taken and the buffer cleared in the same critical section.
Cleared_kept(buf) == buf

Cleared(buf) == <<>>

\* What a flush returns after the sink call: 'return len(batch)' at the end of
\* the try block, 'return 0' in the except clause.
Returned_always(ok, batch) == Len(batch)

Returned(ok, batch) == IF ok THEN Len(batch) ELSE 0

flush_trades_rebuffer(buf, sinkOk) ==
  IF buf = <<>> THEN Outcome(buf, <<>>, 0, FALSE, <<>>)
  ELSE IF \E i \in 1..Len(buf) : ~HasKeys(buf[i], TradeRequiredKeys)
  THEN Outcome(<<>>, <<>>, 0, TRUE, buf)
  ELSE Outcome(IF sinkOk THEN <<>> ELSE buf,
               <<Insert("trades_raw", buf, sinkOk)>>,
               IF sinkOk THEN Len(buf) ELSE 0, FALSE, buf)

flush_trades(buf, sinkOk) ==
  IF buf = <<>> THEN Outcome(buf, <<>>, 0, FALSE, <<>>)
  ELSE IF \E i \in 1..Len(buf) : ~HasKeys(buf[i], TradeRequiredKeys)
  THEN Outcome(Cleared(buf), <<>>, 0, TRUE, buf)
  ELSE Outcome(Cleared(buf),
               <<Insert("trades_raw", buf, sinkOk)>>,
               Returned(sinkOk, buf), FALSE, buf)

flush_orderbook_levels_unfiltered(buf, sinkOk) ==
  LET data == buf IN
  IF buf = <<>> THEN Outcome(buf, <<>>, 0, FALSE, <<>>)
  ELSE IF \E i \in 1..Len(data) : ~HasKeys(data[i], LevelRequiredKeys)
  THEN Outcome(<<>>, <<>>, 0, TRUE, buf)
  ELSE Outcome(<<>>,
               <<Insert("orderbook_levels", data, sinkOk)>>,
               IF sinkOk THEN Len(buf) ELSE 0, FALSE, buf)

flush_orderbook_levels(buf, sinkOk) ==
  LET data == SelectSeq(buf, NotAllNull) IN
  IF buf = <<>> THEN Outcome(buf, <<>>, 0, FALSE, <<>>)
  ELSE IF \E i \in 1..Len(data) : ~HasKeys(data[i], LevelRequiredKeys)
  THEN Outcome(Cleared(buf), <<>>, 0, TRUE, buf)
  ELSE Outcome(Cleared(buf),
               <<Insert("orderbook_levels", data, sinkOk)>>,
               Returned(sinkOk, buf), FALSE, buf)

flush_markets_no_empty_check(buf, sinkOk) ==
  IF \E i \in 1..Len(buf) : ~HasKeys(buf[i], MarketRequiredKeys)
  THEN Outcome(<<>>, <<>>, 0, TRUE, buf)
  ELSE Outcome(<<>>,
               <<Insert("markets_dim", buf, sinkOk)>>,
               IF sinkOk THEN Len(buf) ELSE 0, FALSE, buf)

flush_markets(buf, sinkOk) ==
  IF buf = <<>> THEN Outcome(buf, <<>>, 0, FALSE, <<>>)
  ELSE IF \E i \in 1..Len(buf) : ~HasKeys(buf[i], MarketRequiredKeys)
  THEN Outcome(Cleared(buf), <<>>, 0, TRUE, buf)
  ELSE Outcome(Cleared(buf),
               <<Insert("markets_dim", buf, sinkOk)>>,
               Returned(sinkOk, buf), FALSE, buf)

\* ------------------------------------------------------------ writer actions
NAdds == Len(added.trades) + Len(added.levels) + Len(added.markets)

NoFlush == [kind |-> "none", ret |-> 0, raised |-> FALSE, batch |-> <<>>,
            called |-> FALSE, ok |-> TRUE]

Flushed(kind, o) ==
  [kind |-> kind, ret |-> o.ret, raised |-> o.raised, batch |-> o.batch,
   called |-> o.insert # <<>>,
   ok |-> IF o.insert = <<>> THEN TRUE ELSE o.insert[1].ok]

WriterInit ==
  /\ trade_buffer = <<>>
  /\ orderbook_levels_buffer = <<>>
  /\ market_buffer = <<>>
  /\ inserts = <<>>
  /\ flushed = NoFlush
  /\ added = [trades |-> <<>>, levels |-> <<>>, markets |-> <<>>]

buffer_trade(trade) ==
  /\ trade_buffer' = Append(trade_buffer, trade)
  /\ added' = [added EXCEPT !.trades = Append(@, trade)]
  /\ flushed' = NoFlush
  /\ UNCHANGED <<orderbook_levels_buffer, market_buffer, inserts>>

buffer_orderbook_levels(levels) ==
  /\ orderbook_levels_buffer' = orderbook_levels_buffer \o levels
  /\ added' = [added EXCEPT !.levels = @ \o levels]
  /\ flushed' = NoFlush
  /\ UNCHANGED <<trade_buffer, market_buffer, inserts>>

buffer_market(market) ==
  /\ market_buffer' = Append(market_buffer, market)
  /\ added' = [added EXCEPT !.markets = Append(@, market)]
  /\ flushed' = NoFlush
  /\ UNCHANGED <<trade_buffer, orderbook_levels_buffer, inserts>>

\* The shapes the callers of the writer hand to it.
TradeInputs ==
  {WsTrade(Len(added.trades) + 1, 1), HftTrade(Len(added.trades) + 1, 1)}

HftLevel(l) == [k \in DOMAIN l \cup {"exchange_ts", "local_ts"} |->
                  IF k \in DOMAIN l THEN l[k] ELSE l.ts]

LevelInputs ==
  { WsLevels(<<>>, <<>>, 1),
    WsLevels(<<Entry(60, 5)>>, <<>>, 1),
    [i \in 1..2 |-> HftLevel(WsLevels(<<Entry(60, 5)>>, <<>>, 1)[i])] }

BufferTrade ==
  /\ NAdds < MaxAdds
  /\ UNCHANGED <<wsVars, pipeVars, orchVars>>
  /\ \E t \in TradeInputs : buffer_trade(t)
  /\ UNCHANGED fetchVars

BufferOrderbookLevels ==
  /\ NAdds < MaxAdds
  /\ UNCHANGED <<wsVars, pipeVars, orchVars>>
  /\ \E ls \in LevelInputs : buffer_orderbook_levels(ls)
  /\ UNCHANGED fetchVars

BufferMarket ==
  /\ NAdds < MaxAdds
  /\ UNCHANGED <<wsVars, pipeVars, orchVars>>
  /\ buffer_market(RestMarket(Len(added.markets) + 1))
  /\ UNCHANGED fetchVars

FlushTrades ==
  \E sinkOk \in BOOLEAN :
    LET o == flush_trades(trade_buffer, sinkOk) IN
    /\ trade_buffer' = o.buffer
    /\ inserts' = inserts \o o.insert
    /\ flushed' = Flushed("trades", o)
    /\ UNCHANGED <<orderbook_levels_buffer, market_buffer, added>>
    /\ UNCHANGED <<wsVars, pipeVars, orchVars>>
    /\ UNCHANGED fetchVars

FlushOrderbookLevels ==
  \E sinkOk \in BOOLEAN :
    LET o == flush_orderbook_levels(orderbook_levels_buffer, sinkOk) IN
    /\ orderbook_levels_buffer' = o.buffer
    /\ inserts' = inserts \o o.insert
    /\ flushed' = Flushed("levels", o)
    /\ UNCHANGED <<trade_buffer, market_buffer, added>>
    /\ UNCHANGED <<wsVars, pipeVars, orchVars>>
    /\ UNCHANGED fetchVars

FlushMarkets ==
  \E sinkOk \in BOOLEAN :
    LET o == flush_markets(market_buffer, sinkOk) IN
    /\ market_buffer' = o.buffer
    /\ inserts' = inserts \o o.insert
    /\ flushed' = Flushed("markets", o)
    /\ UNCHANGED <<trade_buffer, orderbook_levels_buffer, added>>
    /\ UNCHANGED <<wsVars, pipeVars, orchVars>>
    /\ UNCHANGED fetchVars

WriterNext ==
  \/ BufferTrade
  \/ BufferOrderbookLevels
  \/ BufferMarket
  \/ FlushTrades
  \/ FlushOrderbookLevels
  \/ FlushMarkets

\* ------------------------------------------------------------ connection
InitialDelay == 1
MaxReconnectDelay == 60
batch_size == 1000
ws_tokens_per_connection == 1000
max_ws_connections == 10

Min(a, b) == IF a < b THEN a ELSE b
Max(a, b) == IF a > b THEN a ELSE b
CeilDiv(a, b) == (a + b - 1) \div b

\* "Reset on successful connect"
DelayAfterConnect_keep(d) == d

DelayAfterConnect(d) == InitialDelay

\* min(self._reconnect_delay * 2, self._max_reconnect_delay)
NextDelay_uncapped(d) == d * 2

NextDelay(d) == Min(d * 2, MaxReconnectDelay)

\* Where _connect_with_retry goes once the try block has ended (the session is
\* over or the attempt raised; both except clauses only print): the backoff
\* sleep if _running, else the while test fails and connect() returns.
AfterAttempt_always_retry(running) == "sleeping"

AfterAttempt(running) == IF running THEN "sleeping" ELSE "done"

\* The while test after the sleep.
AfterSleep(running) == IF running THEN "connecting" ELSE "done"

\* A subscribe message: its assets_ids, who sent it (the re-subscribe of
\* _connect_with_retry or a subscribe() call) and whether it carries every
\* token assigned so far.
Msg(tokens, by, full) == [tokens |-> tokens, by |-> by, full |-> full]

\* "Re-subscribe if we have tokens"
Resubscribe(tokens) ==
  IF tokens = {} THEN <<>> ELSE <<Msg(tokens, "connect", TRUE)>>

\* How a try block of _connect_with_retry can end, and what the two except
\* clauses (ConnectionClosed, Exception) catch.
Exceptions == {"none", "ConnectionClosed", "Exception"}

Caught(exc) == exc \in {"none", "ConnectionClosed", "Exception"}

AfterTry(exc, running) == IF Caught(exc) THEN AfterAttempt(running) ELSE "raised"

WsInit ==
  /\ ws_running = FALSE
  /\ ws = "none"
  /\ subscribed_tokens = {}
  /\ reconnect_delay = InitialDelay
  /\ pc = "idle"
  /\ rw_pc = "idle"
  /\ rw_i = 0
  /\ token_ids = 0
  /\ successful_batches = 0
  /\ failed_batches = 0
  /\ lt_pc = "none"
  /\ sent = <<>>
  /\ early_frame = FALSE
  /\ failures = 0
  /\ slept = 0
  /\ close_at = "never"
  /\ connects = 0

rwVars == <<rw_pc, rw_i, token_ids, successful_batches, failed_batches, lt_pc>>

\* Where the connection is, for close_at.
Where ==
  IF pc # "idle" THEN pc
  ELSE IF rw_pc = "connecting" THEN "connecting"
  ELSE IF lt_pc = "listening" THEN "listening"
  ELSE rw_pc

\* connect(): self._running = True, then _connect_with_retry up to its first
\* await (websockets.connect).
Connect ==
  /\ pc = "idle" /\ rw_pc = "idle"
  /\ ws_running' = TRUE
  /\ pc' = AfterSleep(TRUE)
  /\ UNCHANGED <<writerVars, pipeVars, orchVars>>
  /\ UNCHANGED <<ws, subscribed_tokens, reconnect_delay, rwVars, sent,
                 early_frame, failures, slept, close_at, connects>>
  /\ UNCHANGED fetchVars

\* websockets.connect returned: reset the delay, re-subscribe if there are
\* tokens, start listening.  A send that raises ends the try block.
ConnectOk ==
  /\ pc = "connecting"
  /\ \E sendOk \in BOOLEAN :
       /\ reconnect_delay' = DelayAfterConnect(reconnect_delay)
       /\ connects' = Min(connects + 1, 2)
       /\ early_frame' = FALSE
       /\ IF sendOk
          THEN /\ ws' = "open"
               /\ sent' = Resubscribe(subscribed_tokens)
               /\ pc' = "listening"
               /\ failures' = 0
               /\ UNCHANGED slept
          ELSE /\ subscribed_tokens # {}
               /\ ws' = "closed" /\ sent' = <<>>
               /\ pc' = AfterTry("ConnectionClosed", ws_running)
               /\ failures' = 1
               /\ slept' = IF pc' = "sleeping" THEN reconnect_delay' ELSE slept
  /\ UNCHANGED <<writerVars, pipeVars, orchVars>>
  /\ UNCHANGED <<ws_running, subscribed_tokens, rwVars, close_at>>
  /\ UNCHANGED fetchVars

\* websockets.connect raised.
ConnectFail ==
  /\ pc = "connecting"
  /\ failures < MaxFailures
  /\ failures' = failures + 1
  /\ pc' = AfterTry("Exception", ws_running)
  /\ slept' = IF pc' = "sleeping" THEN reconnect_delay ELSE slept
  /\ UNCHANGED <<writerVars, pipeVars, orchVars>>
  /\ UNCHANGED <<ws_running, ws, subscribed_tokens, reconnect_delay, rwVars,
                 sent, early_frame, close_at, connects>>
  /\ UNCHANGED fetchVars

\* The transport is closed (by the peer, the network or close()): the async
\* for of _listen ends, normally or by raising ConnectionClosed.
ListenEnd ==
  /\ pc = "listening" /\ ws = "closed"
  /\ failures' = failures + 1
  /\ \E exc \in {"none", "ConnectionClosed"} : pc' = AfterTry(exc, ws_running)
  /\ slept' = IF pc' = "sleeping" THEN reconnect_delay ELSE slept
  /\ UNCHANGED <<writerVars, pipeVars, orchVars>>
  /\ UNCHANGED <<ws_running, ws, subscribed_tokens, reconnect_delay, rwVars,
                 sent, early_frame, close_at, connects>>
  /\ UNCHANGED fetchVars

\* asyncio.sleep(self._reconnect_delay) returned: double the delay, test the flag.
SleepDone ==
  /\ pc = "sleeping"
  /\ reconnect_delay' = NextDelay(reconnect_delay)
  /\ pc' = AfterSleep(ws_running)
  /\ UNCHANGED <<writerVars, pipeVars, orchVars>>
  /\ UNCHANGED <<ws_running, ws, subscribed_tokens, rwVars, sent, early_frame,
                 failures, slept, close_at, connects>>
  /\ UNCHANGED fetchVars

\* subscribe(token_ids), called by the owner of a client driven by connect().
Subscribe ==
  /\ rw_pc = "idle"
  /\ Len(sent) < MaxSent
  /\ \E toks \in (SUBSET {<<t, t>> : t \in 1..MaxTokens}) \ {{}} :
       /\ subscribed_tokens' = subscribed_tokens \cup toks
       /\ IF ws = "open"
          THEN sent' = Append(sent, Msg(toks, "subscribe",
                                        toks = subscribed_tokens'))
          ELSE UNCHANGED sent
  /\ UNCHANGED <<writerVars, pipeVars, orchVars>>
  /\ UNCHANGED <<ws_running, ws, reconnect_delay, pc, rwVars, early_frame,
                 failures, slept, close_at, connects>>
  /\ UNCHANGED fetchVars

TokenCounts ==
  {1, batch_size, batch_size + 1, 2 * batch_size + 500,
   ws_tokens_per_connection * max_ws_connections + 1}

total_batches(n) == (n + batch_size - 1) \div batch_size

\* token_ids[i:i + batch_size].  The tokens are numbered 1..N in list order and
\* handled in blocks: the block <<lo, hi>> stands for the tokens lo..hi, and a
\* set of tokens is a set of disjoint blocks.
Batch(i, n) == <<i + 1, Min(i + batch_size, n)>>

Size(block) == block[2] - block[1] + 1

AllBatches(n) == {Batch(j * batch_size, n) : j \in 0..(total_batches(n) - 1)}

\* The tokens the connection has been given: the token_ids argument of
\* _run_websocket, or what subscribe() has collected.
Assigned == IF rw_pc # "idle" THEN AllBatches(token_ids) ELSE subscribed_tokens

\* A frame arrives on the open transport and _listen handles it.
Listening == pc = "listening" \/ lt_pc = "listening"

Frame ==
  /\ Listening /\ ws = "open"
  /\ early_frame' = (early_frame \/ (sent = <<>> /\ Assigned # {}))
  /\ UNCHANGED <<writerVars, pipeVars, orchVars>>
  /\ UNCHANGED <<ws_running, ws, subscribed_tokens, reconnect_delay, pc, rwVars,
                 sent, failures, slept, close_at, connects>>
  /\ UNCHANGED fetchVars

\* The peer or the network closes the transport.
PeerClose ==
  /\ ws = "open"
  /\ ws' = "closed"
  /\ UNCHANGED <<writerVars, pipeVars, orchVars>>
  /\ UNCHANGED <<ws_running, subscribed_tokens, reconnect_delay, pc, rwVars,
                 sent, early_frame, failures, slept, close_at, connects>>
  /\ UNCHANGED fetchVars

\* close(): self._running = False; if self._ws: await self._ws.close()
Close ==
  /\ close_at = "never"
  /\ pc # "idle" \/ rw_pc # "idle"
  /\ close_at' = Where
  /\ ws_running' = FALSE
  /\ ws' = IF ws = "none" THEN "none" ELSE "closed"
  /\ UNCHANGED <<writerVars, pipeVars, orchVars>>
  /\ UNCHANGED <<subscribed_tokens, reconnect_delay, pc, rwVars, sent,
                 early_frame, failures, slept, connects>>
  /\ UNCHANGED fetchVars

\* ------------------------------------------- PolymarketIngestion._run_websocket
\* _run_websocket up to its first await: ws_client._running = True, then
\* websockets.connect.
RunWebsocket ==
  /\ pc = "idle" /\ rw_pc = "idle" /\ subscribed_tokens = {}
  /\ \E n \in TokenCounts : token_ids' = n
  /\ ws_running' = TRUE
  /\ rw_pc' = "connecting"
  /\ UNCHANGED <<writerVars, pipeVars, orchVars>>
  /\ UNCHANGED <<ws, subscribed_tokens, reconnect_delay, pc, rw_i,
                 successful_batches, failed_batches, lt_pc, sent, early_frame,
                 failures, slept, close_at, connects>>
  /\ UNCHANGED fetchVars

\* websockets.connect raised: the except clause prints and the task ends.
RwConnectFail ==
  /\ rw_pc = "connecting"
  /\ rw_pc' = "done"
  /\ failures' = failures + 1
  /\ UNCHANGED <<writerVars, pipeVars, orchVars>>
  /\ UNCHANGED <<ws_running, ws, subscribed_tokens, reconnect_delay, pc, rw_i,
                 token_ids, successful_batches, failed_batches, lt_pc, sent,
                 early_frame, slept, close_at, connects>>
  /\ UNCHANGED fetchVars

\* websockets.connect returned: create the listen task, sleep(1).
RwConnectOk ==
  /\ rw_pc = "connecting"
  /\ ws' = "open"
  /\ lt_pc' = "listening"
  /\ rw_pc' = "stabilizing"
  /\ connects' = Min(connects + 1, 2)
  /\ sent' = <<>>
  /\ early_frame' = FALSE
  /\ UNCHANGED <<writerVars, pipeVars, orchVars>>
  /\ UNCHANGED <<ws_running, subscribed_tokens, reconnect_delay, pc, rw_i,
                 token_ids, successful_batches, failed_batches, failures,
                 slept, close_at>>
  /\ UNCHANGED fetchVars

\* One iteration of the batch loop: subscribe(batch), which records the tokens
\* and sends them only if the transport is open; a send that raises is counted
\* as a failed batch; then sleep(0.5) if another batch follows.
RwSubscribeBatch ==
  /\ rw_pc \in {"stabilizing", "subscribing"}
  /\ rw_i < token_ids
  /\ LET batch == Batch(rw_i, token_ids) IN
     \E sendOk \in BOOLEAN :
       /\ subscribed_tokens' = subscribed_tokens \cup {batch}
       /\ IF ws = "open"
          THEN IF sendOk
               THEN /\ sent' = Append(sent, Msg({batch}, "subscribe",
                                             {batch} = AllBatches(token_ids)))
                    /\ successful_batches' = successful_batches + 1
                    /\ UNCHANGED <<failed_batches, ws>>
               ELSE /\ failed_batches' = failed_batches + 1
                    /\ ws' = "closed"
                    /\ UNCHANGED <<successful_batches, sent>>
          ELSE /\ sendOk
               /\ successful_batches' = successful_batches + 1
               /\ UNCHANGED <<failed_batches, ws, sent>>
  /\ rw_i' = rw_i + batch_size
  /\ rw_pc' = IF rw_i' < token_ids THEN "subscribing" ELSE "awaiting_listen"
  /\ UNCHANGED <<writerVars, pipeVars, orchVars>>
  /\ UNCHANGED <<ws_running, reconnect_delay, pc, token_ids, lt_pc,
                 early_frame, failures, slept, close_at, connects>>
  /\ UNCHANGED fetchVars

\* The listen task ends when the transport is closed.
LtEnd ==
  /\ lt_pc = "listening" /\ ws = "closed"
  /\ lt_pc' = "done"
  /\ failures' = failures + 1
  /\ UNCHANGED <<writerVars, pipeVars, orchVars>>
  /\ UNCHANGED <<ws_running, ws, subscribed_tokens, reconnect_delay, pc, rw_pc,
                 rw_i, token_ids, successful_batches, failed_batches, sent,
                 early_frame, slept, close_at, connects>>
  /\ UNCHANGED fetchVars

\* await listen_task returns or raises (caught, printed): _run_websocket ends.
RwDone ==
  /\ rw_pc = "awaiting_listen" /\ lt_pc = "done"
  /\ rw_pc' = "done"
  /\ UNCHANGED <<writerVars, pipeVars, orchVars>>
  /\ UNCHANGED <<ws_running, ws, subscribed_tokens, reconnect_delay, pc, rw_i,
                 token_ids, successful_batches, failed_batches, lt_pc, sent,
                 early_frame, failures, slept, close_at, connects>>
  /\ UNCHANGED fetchVars

WsNext ==
  \/ Connect
  \/ ConnectOk
  \/ ConnectFail
  \/ ListenEnd
  \/ SleepDone
  \/ Subscribe
  \/ Frame
  \/ PeerClose
  \/ Close
  \/ RunWebsocket
  \/ RwConnectFail
  \/ RwConnectOk
  \/ RwSubscribeBatch
  \/ LtEnd
  \/ RwDone

\* ------------------------------------------------------- PolymarketIngestion
NoFrame == [frame |-> [json |-> FALSE, events |-> <<>>], receipt |-> 0,
            trades |-> <<>>, books |-> <<>>, error |-> "none",
            prev |-> "none", loop |-> "listening"]

PipeInit ==
  /\ markets = <<>>
  /\ token_to_market = <<>>
  /\ stats = [trades_received |-> 0, levels_received |-> 0, trades_written |-> 0,
              levels_written |-> 0, markets_synced |-> 0]
  /\ now = 1
  /\ last = NoFrame
  /\ frames = 0
  /\ syncs = 0

\* market_categories.json, when the file exists
COMPUTED_CATEGORIES == [m2 |-> "Crypto"]

\* any(k in q_text for k in sports_keywords)
HasSportsKeyword(q_text) == q_text \in {"Lakers vs Celtics", "World Cup winner?"}

\* An element of the list fetch_active_markets returns.
ApiMarket(id, cond, category, question, tokens) ==
  [market_id |-> id, condition_id |-> cond, question |-> question, slug |-> "",
   category |-> category, outcomes |-> <<"Yes", "No">>, clob_token_ids |-> tokens,
   end_date |-> None, active |-> 1, closed |-> 0, volume_total |-> 0,
   liquidity |-> 0, best_bid |-> 0, best_ask |-> 0, last_trade_price |-> 0]

computed_category(market) ==
  LET mkt_id == Get(market, "market_id", "")
      api_cat == Get(market, "category", "Unknown")
      q_text == Get(market, "question", "")
      computed_cat ==
        IF mkt_id \in DOMAIN COMPUTED_CATEGORIES THEN COMPUTED_CATEGORIES[mkt_id]
        ELSE IF api_cat = "Sports" THEN "Sports"
        ELSE IF HasSportsKeyword(q_text) THEN "Sports"
        ELSE api_cat
  IN IF computed_cat # "" THEN computed_cat ELSE "Other"

WithCategory(market) == [computed_category |-> computed_category(market)] @@ market

\* dict assignment d[k] = v
Put(d, k, v) == [x \in DOMAIN d \cup {k} |-> IF x = k THEN v ELSE d[x]]

RECURSIVE PutAll(_, _, _)
PutAll(d, ks, v) ==
  IF ks = <<>> THEN d ELSE PutAll(Put(d, Head(ks), v), Tail(ks), v)

\* The loop of _sync_markets over the fetched list: the two lookup tables after it.
RECURSIVE SyncTables(_, _, _)
SyncTables(fetched, mk, t2m) ==
  IF fetched = <<>> THEN [markets |-> mk, token_to_market |-> t2m]
  ELSE LET market == WithCategory(Head(fetched)) IN
       SyncTables(Tail(fetched),
                  Put(mk, market.condition_id, market),
                  PutAll(t2m, market.clob_token_ids, market.condition_id))

WithCategories(fetched) == [i \in 1..Len(fetched) |-> WithCategory(fetched[i])]

Fetches ==
  { <<>>,
    <<ApiMarket("m1", "c1", "Unknown", "Lakers vs Celtics", <<"tok", "tok2">>)>>,
    <<ApiMarket("m1", "c1", "Politics", "Who wins?", <<"tok">>),
      ApiMarket("m2", "c2", "Sports", "Who wins?", <<"tok2">>)>>,
    <<ApiMarket("", "c3", "", "Who wins?", <<"tok">>)>> }

\* What fetch_active_markets can do: a closed httpx client raises.
FetchOutcomes == IF http_client = "closed" THEN {FALSE} ELSE BOOLEAN

\* What the sink can answer to an insert: a closed client raises.
InsertOutcomes == IF client = "closed" THEN {FALSE} ELSE BOOLEAN

\* _sync_markets, whole: fetch, tag, index, buffer and flush the markets.  A
\* failed fetch raises before anything is touched and is swallowed.
sync_markets(fetches) ==
  /\ syncs' = syncs + 1
  /\ \E fetchOk \in FetchOutcomes :
       /\ fetch_error' = ~fetchOk
       /\ IF ~fetchOk
          THEN UNCHANGED <<writerVars, markets, token_to_market, stats>>
          ELSE \E fetched \in fetches, sinkOk \in InsertOutcomes :
                 LET tables == SyncTables(fetched, markets, token_to_market)
                     o == flush_markets(market_buffer \o WithCategories(fetched),
                                        sinkOk)
                 IN
                 /\ markets' = tables.markets
                 /\ token_to_market' = tables.token_to_market
                 /\ market_buffer' = o.buffer
                 /\ inserts' = inserts \o o.insert
                 /\ flushed' = Flushed("markets", o)
                 /\ added' = [added EXCEPT !.markets = @ \o WithCategories(fetched)]
                 /\ stats' = [stats EXCEPT !.markets_synced = Len(fetched)]
                 /\ UNCHANGED <<trade_buffer, orderbook_levels_buffer>>
  /\ UNCHANGED <<now, last, frames>>

\* A resync runs while frames arrive and the flusher runs.
SyncMarkets ==
  /\ syncs < MaxSyncs
  /\ sync_markets(Fetches)
  /\ UNCHANGED wsVars
  /\ UNCHANGED <<orch_running, start_pc, stop_pc, ws_client, client, http_client,
                 tasks, sub_ids, category_filter, shutdown>>
  /\ UNCHANGED fetchVars

enrich_market_info_stale(item) ==
  IF Get(item, "market_id", "") = "" /\ Get(item, "token_id", "") # ""
  THEN LET condition_id == Get(token_to_market, item.token_id, "") IN
       IF condition_id # ""
       THEN LET market_data == Get(markets, condition_id, <<>>)
                tagged == [condition_id |-> condition_id,
                           market_id |-> Get(item, "condition_id", "")] @@ item
            IN IF "computed_category" \in DOMAIN market_data
               THEN [category |-> market_data.computed_category] @@ tagged
               ELSE tagged
       ELSE item
  ELSE item

\* _enrich_market_info: the item after the call
enrich_market_info(item) ==
  IF Get(item, "market_id", "") = "" /\ Get(item, "token_id", "") # ""
  THEN LET condition_id == Get(token_to_market, item.token_id, "") IN
       IF condition_id # ""
       THEN LET market_data == Get(markets, condition_id, <<>>)
                tagged == [condition_id |-> condition_id,
                           market_id |-> Get(market_data, "market_id", "")] @@ item
            IN IF "computed_category" \in DOMAIN market_data
               THEN [category |-> market_data.computed_category] @@ tagged
               ELSE tagged
       ELSE item
  ELSE item

\* _handle_message over the events of one frame, in order, until one raises:
\* the dicts handed to on_trade and on_book and the exception that ended it.
\* Event k is handled when the clock reads t.
RECURSIVE HandleEvents(_, _, _, _)
HandleEvents(events, t, drift, acc) ==
  IF events = <<>> THEN acc
  ELSE LET event == Head(events)
           branch == Classify(event)
           rest == Tail(events)
       IN
       IF branch = "trade"
       THEN LET r == handle_trade(event, t) IN
            IF r.error # "none" THEN [acc EXCEPT !.error = r.error]
            ELSE HandleEvents(rest, t + drift, drift,
                              [acc EXCEPT !.trades = Append(@, r.trade[1])])
       ELSE IF branch = "book"
       THEN LET r == handle_book(event, t) IN
            IF r.error # "none" THEN [acc EXCEPT !.error = r.error]
            ELSE HandleEvents(rest, t + drift, drift,
                              [acc EXCEPT !.books = Append(@, r.book[1])])
       ELSE HandleEvents(rest, t + drift, drift, acc)

Enriched_hits_only(items) ==
  SelectSeq([i \in 1..Len(items) |-> enrich_market_info(items[i])],
            LAMBDA item : Get(token_to_market, Get(item, "token_id", ""), "") # "")

\* The items after on_trade / on_book have tagged them, as they are buffered.
Enriched(items) == [i \in 1..Len(items) |-> enrich_market_info(items[i])]

RECURSIVE AllLevels(_)
AllLevels(books) ==
  IF books = <<>> THEN <<>>
  ELSE Enriched(Head(books).levels) \o AllLevels(Tail(books))

\* Frames of the feed: a JSON object is a frame of one event.
Ev(tag) == [event_type |-> tag, asset_id |-> "tok", price |-> DecStr(42), size |-> Digits(10)]

UntaggedTrade == [price |-> DecStr(42), size |-> Digits(10), side |-> "BUY"]

UntaggedBook == [asset_id |-> "tok", bids |-> <<Entry(55, 3)>>, asks |-> <<Entry(60, 5)>>]

Events ==
  { UntaggedTrade,
    UntaggedBook,
    TradeEvent(1, 7),
    Ev("last_trade_price"),
    [type |-> "trade", asset |-> "tok2", condition_id |-> "c9", side |-> "SELL",
     price |-> Num(1), size |-> DecStr(250), ts |-> Iso(7), trade_id |-> <<"id", 2>>],
    [Ev("trade") EXCEPT !.price = Text],
    Ev("price_change"),
    Ev("tick_size_change"),
    BookEvent(<<Entry(55, 3), Entry(60, 5)>>, <<Entry(63, 1), Entry(61, 2)>>),
    [event_type |-> "book", asset_id |-> "tok", bids |-> <<>>, asks |-> <<>>],
    BookEvent(<<[price |-> Text, size |-> Digits(1)]>>, <<>>) }

FrameSet ==
  {[json |-> FALSE, events |-> <<>>]}
  \cup {[json |-> TRUE, events |-> <<e>>] : e \in Events}
  \cup {[json |-> TRUE, events |-> es] :
          es \in { <<>>,
                   <<Ev("trade"), TradeEvent(1, 7)>>,
                   <<Ev("trade"), Ev("trade") @@ [timestamp |-> Text], Ev("trade")>>,
                   <<TradeEvent(1, 7), BookEvent(<<Entry(60, 5), Entry(55, 3)>>, <<>>)>> }}

\* Where the loop of _listen is after a frame whose handling raised 'error':
\* both except clauses are inside the loop body.
AfterMessage_propagate(error) ==
  IF error \in {"none", "JSONDecodeError"} THEN "listening" ELSE "ended"

AfterMessage(error) == "listening"

\* A buffer after the items handed over in one frame have been added to it:
\* list.append for each trade, list.extend for the levels of each snapshot.
Extended_newest_first(buffer, items) ==
  buffer \o [i \in 1..Len(items) |-> items[Len(items) - i + 1]]

Extended(buffer, items) == buffer \o items

\* One iteration of the loop of _listen: a frame is received at 'now', decoded
\* and its events handled; on_trade and on_book (PolymarketIngestion._on_trade,
\* _on_book) count, tag and buffer what they are handed.  last.trades and
\* last.books are the dicts as handed to the callbacks.
on_message(data, drift) ==
  LET r == HandleEvents(data.events, now, drift,
                        [trades |-> <<>>, books |-> <<>>, error |-> "none"])
      error == IF data.json THEN r.error ELSE "JSONDecodeError"
      trades == Enriched(r.trades)
      levels == AllLevels(r.books)
  IN
  /\ last.loop = "listening"
  /\ frames' = frames + 1
  /\ trade_buffer' = Extended(trade_buffer, trades)
  /\ orderbook_levels_buffer' = Extended(orderbook_levels_buffer, levels)
  /\ added' = [added EXCEPT !.trades = @ \o trades, !.levels = @ \o levels]
  /\ flushed' = NoFlush
  /\ stats' = [stats EXCEPT !.trades_received = @ + Len(r.trades),
                            !.levels_received = @ + MaxLevels * Len(r.books)]
  /\ last' = [frame |-> data, receipt |-> now, trades |-> r.trades,
              books |-> r.books, error |-> error,
              prev |-> last.error, loop |-> AfterMessage(error)]
  /\ now' = now + 1 + drift * Max(Len(data.events) - 1, 0)
  /\ UNCHANGED <<market_buffer, inserts, markets, token_to_market, syncs>>
  /\ UNCHANGED <<wsVars, orchVars>>

\* A frame arrives while the resync and the flusher run.
HandleMessage ==
  /\ frames < MaxFrames
  /\ \E data \in FrameSet, drift \in {0, 1} : on_message(data, drift)
  /\ UNCHANGED fetchVars

\* A frame arrives, the listen loop taken alone over several frames.
ListenLoop ==
  /\ frames < MaxListen
  /\ \E data \in FrameSet, drift \in {0, 1} : on_message(data, drift)
  /\ UNCHANGED fetchVars

\* What the sink can answer to the flush of a buffer: nothing is asked of it
\* when the buffer is empty.
SinkOutcomes(buf) == IF buf = <<>> THEN {TRUE} ELSE InsertOutcomes

\* flush_all: the three flushes in turn.  An exception out of one of them
\* leaves flush_all with the later kinds unflushed; otherwise the counts of
\* trades and levels are returned.
flush_all(okT, okL, okM) ==
  LET ot == flush_trades(trade_buffer, okT)
      ol == flush_orderbook_levels(orderbook_levels_buffer, okL)
      om == flush_markets(market_buffer, okM)
  IN
  IF ot.raised
  THEN [trade_buffer |-> ot.buffer,
        orderbook_levels_buffer |-> orderbook_levels_buffer,
        market_buffer |-> market_buffer, inserts |-> <<>>,
        flushed |-> Flushed("trades", ot), raised |-> TRUE,
        trades |-> 0, orderbook_levels |-> 0]
  ELSE IF ol.raised
  THEN [trade_buffer |-> ot.buffer, orderbook_levels_buffer |-> ol.buffer,
        market_buffer |-> market_buffer, inserts |-> ot.insert,
        flushed |-> Flushed("levels", ol), raised |-> TRUE,
        trades |-> 0, orderbook_levels |-> 0]
  ELSE [trade_buffer |-> ot.buffer, orderbook_levels_buffer |-> ol.buffer,
        market_buffer |-> om.buffer,
        inserts |-> ot.insert \o ol.insert \o om.insert,
        flushed |-> Flushed("markets", om), raised |-> FALSE,
        trades |-> ot.ret, orderbook_levels |-> ol.ret]

\* One round of _run_flusher: flush_all, then the written counters; an
\* exception out of flush_all is caught and printed.
flusher_round ==
  /\ \E okT \in SinkOutcomes(trade_buffer),
        okL \in SinkOutcomes(orderbook_levels_buffer),
        okM \in SinkOutcomes(market_buffer) :
       LET r == flush_all(okT, okL, okM) IN
       /\ trade_buffer' = r.trade_buffer
       /\ orderbook_levels_buffer' = r.orderbook_levels_buffer
       /\ market_buffer' = r.market_buffer
       /\ inserts' = inserts \o r.inserts
       /\ flushed' = r.flushed
       /\ stats' = IF r.raised THEN stats
                   ELSE [stats EXCEPT !.trades_written = @ + r.trades,
                                      !.levels_written = @ + r.orderbook_levels]
  /\ UNCHANGED <<added, markets, token_to_market, now, last, frames, syncs>>

RunFlusher ==
  /\ flusher_round
  /\ UNCHANGED <<wsVars, orchVars>>
  /\ UNCHANGED fetchVars

\* ------------------------------------------------ start(), stop(), the loops
Loops == {"flusher", "market_sync", "stats_reporter"}

OrchInit ==
  /\ orch_running = FALSE
  /\ start_pc = "idle"
  /\ stop_pc = "idle"
  /\ ws_client = FALSE
  /\ client = "none"
  /\ http_client = "open"
  /\ tasks = [t \in Loops |-> "none"]
  /\ sub_ids = {}
  /\ category_filter = ""
  /\ shutdown = <<>>
  /\ fetch_error = FALSE

\* config.category_filter: None or a category name
CategoryFilters == {"", "Sports"}

\* PolymarketIngestion(config).start() up to its first await: writer.connect(),
\* which raises out of start() when the sink cannot be reached, then
\* self._running = True and the fetch of _sync_markets.
Start ==
  /\ start_pc = "idle"
  /\ \E filter \in CategoryFilters, sinkUp \in BOOLEAN :
       /\ category_filter' = filter
       /\ IF sinkUp
          THEN client' = "open" /\ orch_running' = TRUE /\ start_pc' = "syncing"
          ELSE start_pc' = "raised" /\ UNCHANGED <<client, orch_running>>
  /\ UNCHANGED <<stop_pc, ws_client, http_client, tasks, sub_ids, shutdown,
                 fetch_error>>
  /\ UNCHANGED <<writerVars, wsVars, pipeVars>>
  /\ UNCHANGED fetchVars

\* What the metadata API lists when the orchestrator starts
OrchFetches ==
  { <<ApiMarket("m1", "c1", "Politics", "Who wins?", <<"tok">>),
      ApiMarket("m2", "c2", "Sports", "Who wins?", <<"tok2">>)>> }

\* await self._sync_markets() in start(): the fetch answers and the rest of
\* _sync_markets runs.
InitialSync ==
  /\ start_pc = "syncing"
  /\ sync_markets(OrchFetches)
  /\ start_pc' = "synced"
  /\ UNCHANGED <<orch_running, stop_pc, ws_client, client, http_client, tasks,
                 sub_ids, category_filter, shutdown>>
  /\ UNCHANGED wsVars
  /\ UNCHANGED fetchVars

\* The rows of markets_dim earlier runs of the pipeline have left in the sink.
MarketsDimBefore ==
  { <<>>,
    <<WithCategory(ApiMarket("m7", "c7", "Sports", "Who wins?", <<"tok7">>))>> }

RECURSIVE InsertedRows(_, _)
InsertedRows(log, table) ==
  IF log = <<>> THEN <<>>
  ELSE (IF Head(log).table = table /\ Head(log).ok THEN Head(log).rows ELSE <<>>)
       \o InsertedRows(Tail(log), table)

\* arrayJoin(clob_token_ids): one row <<condition_id, market_id, token_id>> a token
RECURSIVE ArrayJoin(_)
ArrayJoin(stored) ==
  IF stored = <<>> THEN <<>>
  ELSE LET m == Head(stored) IN
       [i \in 1..Len(m.clob_token_ids) |->
          <<m.condition_id, m.market_id, m.clob_token_ids[i]>>]
       \o ArrayJoin(Tail(stored))

\* SELECT ... FROM markets_dim WHERE computed_category = filter
\*   AND length(clob_token_ids) > 0
Query(stored, filter) ==
  ArrayJoin(SelectSeq(stored, LAMBDA m : m.computed_category = filter))

\* The loop of start() over result.result_rows: the token list and the two
\* lookup tables after it.
RECURSIVE FilterTables(_, _, _, _)
FilterTables(rows, ids, mk, t2m) ==
  IF rows = <<>> THEN [token_ids |-> ids, markets |-> mk, token_to_market |-> t2m]
  ELSE LET cond_id == Head(rows)[1]
           mkt_id == Head(rows)[2]
           tok_id == Head(rows)[3]
       IN
       IF tok_id # ""
       THEN FilterTables(Tail(rows), ids \cup {tok_id},
                         IF cond_id \in DOMAIN mk THEN mk
                         ELSE Put(mk, cond_id,
                                  [market_id |-> mkt_id, condition_id |-> cond_id]),
                         Put(t2m, tok_id, cond_id))
       ELSE FilterTables(Tail(rows), ids, mk, t2m)

\* 'while self._running', on entry and after a round of a loop
AfterRound(isRunning) == IF isRunning THEN "sleeping" ELSE "done"

\* 'if not token_ids: return': where start() goes with the token list it has.
AfterFilter_always_start(ids) == "gathering"

AfterFilter(ids) == IF ids = {} THEN "returned" ELSE "gathering"

\* start() from the return of _sync_markets to 'await asyncio.gather': the
\* connection object, the token list (the list as the set of its elements), the
\* category filter and the four tasks.  The tasks run to their first await as
\* soon as start() waits: each loop tests _running and sleeps, and
\* _run_websocket sets ws_client._running and calls websockets.connect.
StartTasks ==
  /\ start_pc = "synced"
  /\ ws_client' = TRUE
  /\ \E queryOk \in BOOLEAN, before \in MarketsDimBefore :
       LET rows == Query(before \o InsertedRows(inserts, "markets_dim"),
                         category_filter)
           f == IF category_filter # "" /\ queryOk
                THEN FilterTables(rows, {}, markets, token_to_market)
                ELSE [token_ids |-> DOMAIN token_to_market, markets |-> markets,
                      token_to_market |-> token_to_market]
       IN
       /\ category_filter = "" => queryOk /\ before = <<>>
       /\ markets' = f.markets
       /\ token_to_market' = f.token_to_market
       /\ sub_ids' = f.token_ids
       /\ start_pc' = AfterFilter(f.token_ids)
       /\ IF AfterFilter(f.token_ids) = "returned"
          THEN UNCHANGED <<tasks, ws_running, rw_pc, token_ids>>
          ELSE /\ tasks' = [t \in Loops |-> AfterRound(orch_running)]
               /\ ws_running' = TRUE
               /\ rw_pc' = "connecting"
               /\ token_ids' = Cardinality(f.token_ids)
  /\ UNCHANGED <<orch_running, stop_pc, client, http_client, category_filter, shutdown,
                 fetch_error>>
  /\ UNCHANGED <<ws, subscribed_tokens, reconnect_delay, pc, rw_i,
                 successful_batches, failed_batches, lt_pc, sent, early_frame,
                 failures, slept, close_at, connects>>
  /\ UNCHANGED <<stats, now, last, frames, syncs>>
  /\ UNCHANGED writerVars
  /\ UNCHANGED fetchVars

\* Where _run_market_sync is after a round: _sync_markets catches whatever its
\* try block raises, so the round ends at the loop test either way.
AfterSyncRound_propagate(failed, isRunning) ==
  IF failed THEN "raised" ELSE AfterRound(isRunning)

AfterSyncRound(failed, isRunning) == AfterRound(isRunning)

\* _run_flusher wakes from its sleep: one round, then the loop test.
FlusherWakes ==
  /\ tasks.flusher = "sleeping"
  /\ flusher_round
  /\ tasks' = [tasks EXCEPT !.flusher = AfterRound(orch_running)]
  /\ UNCHANGED <<orch_running, start_pc, stop_pc, ws_client, client, http_client,
                 sub_ids, category_filter, shutdown, fetch_error>>
  /\ UNCHANGED wsVars
  /\ UNCHANGED fetchVars

\* _run_market_sync wakes from its sleep: _sync_markets, then the loop test.
MarketSyncWakes ==
  /\ tasks.market_sync = "sleeping"
  /\ syncs < MaxSyncs \/ ~orch_running
  /\ sync_markets(OrchFetches)
  /\ tasks' = [tasks EXCEPT !.market_sync = AfterSyncRound(fetch_error', orch_running)]
  /\ UNCHANGED <<orch_running, start_pc, stop_pc, ws_client, client, http_client,
                 sub_ids, category_filter, shutdown>>
  /\ UNCHANGED wsVars
  /\ UNCHANGED fetchVars

\* What the metadata API lists at a later sync: the two markets of the first
\* listing are gone, a market has taken over the token of one of them, and a
\* market with a token never seen before has appeared.
ResyncFetches ==
  { <<ApiMarket("", "c3", "", "Who wins?", <<"tok">>),
      ApiMarket("m5", "c5", "Politics", "Who wins?", <<"tok5">>)>> }

\* The subscribe messages a round of _run_market_sync sends for the tokens
\* its sync has discovered: the loop has no statement after _sync_markets.
resync_messages_subscribe(discovered) ==
  IF discovered = {} THEN <<>> ELSE <<Msg(discovered, "resync", FALSE)>>

resync_messages(discovered) == <<>>

\* _run_market_sync wakes from its sleep while the pipeline runs.
Resync ==
  /\ tasks.market_sync = "sleeping"
  /\ syncs < MaxResyncs
  /\ sync_markets(ResyncFetches)
  /\ sent' = sent \o resync_messages(DOMAIN token_to_market' \ sub_ids)
  /\ tasks' = [tasks EXCEPT !.market_sync = AfterSyncRound(fetch_error', orch_running)]
  /\ UNCHANGED <<orch_running, start_pc, stop_pc, ws_client, client, http_client,
                 sub_ids, category_filter, shutdown>>
  /\ UNCHANGED <<ws_running, ws, subscribed_tokens, reconnect_delay, pc, rwVars,
                 early_frame, failures, slept, close_at, connects>>
  /\ UNCHANGED fetchVars

\* _run_stats_reporter wakes from its sleep: it prints, then the loop test.
StatsReporterWakes ==
  /\ tasks.stats_reporter = "sleeping"
  /\ tasks' = [tasks EXCEPT !.stats_reporter = AfterRound(orch_running)]
  /\ UNCHANGED <<orch_running, start_pc, stop_pc, ws_client, client, http_client,
                 sub_ids, category_filter, shutdown, fetch_error>>
  /\ UNCHANGED <<writerVars, wsVars, pipeVars>>
  /\ UNCHANGED fetchVars

\* The frames that arrive while the orchestrator runs
OrchFrames ==
  {[json |-> TRUE, events |-> <<Ev("trade"), BookEvent(<<Entry(55, 3)>>, <<>>)>>]}

\* _listen receives a frame on the connection _run_websocket opened.
Receive ==
  /\ lt_pc = "listening" /\ ws = "open"
  /\ frames < MaxFrames
  /\ \E data \in OrchFrames : on_message(data, 0)
  /\ UNCHANGED fetchVars

\* asyncio.run(main()) ends the loop when start() is over: a stop() still
\* waiting is cancelled there.
LoopAlive == start_pc \notin {"returned", "raised"}

\* stop() from 'results = await self.writer.flush_all()' to its next await: an
\* exception out of flush_all leaves stop(); otherwise rest_client.close() is
\* called.  'done' are the steps of stop() behind it.
final_flush(done) ==
  \E okT \in SinkOutcomes(trade_buffer),
     okL \in SinkOutcomes(orderbook_levels_buffer),
     okM \in SinkOutcomes(market_buffer) :
    LET r == flush_all(okT, okL, okM) IN
    /\ trade_buffer' = r.trade_buffer
    /\ orderbook_levels_buffer' = r.orderbook_levels_buffer
    /\ market_buffer' = r.market_buffer
    /\ inserts' = inserts \o r.inserts
    /\ flushed' = r.flushed
    /\ IF r.raised
       THEN /\ stop_pc' = "raised"
            /\ shutdown' = done
            /\ UNCHANGED http_client
       ELSE /\ stop_pc' = "closing_rest"
            /\ shutdown' = Append(done, "flush")
            /\ http_client' = "closed"
    /\ UNCHANGED added

\* The signal handler has created the stop() task and it runs to its first
\* await: self._running = False, then ws_client.close() if there is a client,
\* which waits for the transport to close if there is one.
Stop ==
  /\ stop_pc = "idle"
  /\ start_pc \in {"syncing", "gathering"}
  /\ orch_running' = FALSE
  /\ IF ws_client
     THEN ws_running' = FALSE /\ close_at' = Where
     ELSE UNCHANGED <<ws_running, close_at>>
  /\ IF ws_client /\ ws # "none"
     THEN /\ ws' = "closed"
          /\ stop_pc' = "closing_ws"
          /\ shutdown' = <<"flag">>
          /\ UNCHANGED <<writerVars, http_client>>
     ELSE /\ final_flush(<<"flag", "close">>)
          /\ UNCHANGED ws
  /\ UNCHANGED <<start_pc, ws_client, client, tasks, sub_ids, category_filter,
                 fetch_error>>
  /\ UNCHANGED <<subscribed_tokens, reconnect_delay, pc, rwVars, sent,
                 early_frame, failures, slept, connects>>
  /\ UNCHANGED pipeVars
  /\ UNCHANGED fetchVars

\* self._ws.close() has returned: stop() goes on to the final flush.
StopWsClosed ==
  /\ stop_pc = "closing_ws" /\ LoopAlive
  /\ final_flush(Append(shutdown, "close"))
  /\ UNCHANGED <<orch_running, start_pc, ws_client, client, tasks, sub_ids,
                 category_filter, fetch_error>>
  /\ UNCHANGED <<wsVars, pipeVars>>
  /\ UNCHANGED fetchVars

\* rest_client.close() has returned: writer.close(), and stop() returns.
StopRestClosed ==
  /\ stop_pc = "closing_rest" /\ LoopAlive
  /\ client' = "closed"
  /\ stop_pc' = "done"
  /\ shutdown' = shutdown \o <<"rest", "sink">>
  /\ UNCHANGED <<orch_running, start_pc, ws_client, http_client, tasks, sub_ids,
                 category_filter, fetch_error>>
  /\ UNCHANGED <<writerVars, wsVars, pipeVars>>
  /\ UNCHANGED fetchVars

\* asyncio.gather returns when the four tasks are over, and start() with it.
Gathered ==
  /\ start_pc = "gathering"
  /\ rw_pc = "done"
  /\ \A t \in Loops : tasks[t] = "done"
  /\ start_pc' = "returned"
  /\ UNCHANGED <<orch_running, stop_pc, ws_client, client, http_client, tasks,
                 sub_ids, category_filter, shutdown, fetch_error>>
  /\ UNCHANGED <<writerVars, wsVars, pipeVars>>
  /\ UNCHANGED fetchVars

OrchNext ==
  \/ Start
  \/ InitialSync
  \/ StartTasks
  \/ RwConnectFail
  \/ RwConnectOk
  \/ RwSubscribeBatch
  \/ LtEnd
  \/ RwDone
  \/ PeerClose
  \/ Receive
  \/ FlusherWakes
  \/ MarketSyncWakes
  \/ StatsReporterWakes
  \/ Stop
  \/ StopWsClosed
  \/ StopRestClosed
  \/ Gathered

\* The pipeline while it runs: start, the connection, frames, flushes, resyncs.
ResyncNext ==
  \/ Start
  \/ InitialSync
  \/ StartTasks
  \/ RwConnectFail
  \/ RwConnectOk
  \/ RwSubscribeBatch
  \/ PeerClose
  \/ Receive
  \/ FlusherWakes
  \/ Resync

PipeNext ==
  \/ SyncMarkets
  \/ HandleMessage
  \/ RunFlusher

\* --------------------------------- PolymarketRestClient.fetch_active_markets
page_size == 500

\* A listing without end: every page the API is asked for is full.
Endless == -1

Limits == {0, 1, page_size + 200} \cup {k * page_size : k \in 1..MaxPages}

Listings ==
  {Endless, 0, 1, page_size - 1, page_size + 1}
    \cup {k * page_size : k \in 1..MaxPages}

\* The page the API returns for 'limit': page_size, 'offset': o, as the block
\* of listing positions it holds; <<>> is the empty page.
Page(total, o) ==
  IF total = Endless THEN <<o + 1, o + page_size>>
  ELSE IF o >= total THEN <<>>
  ELSE <<o + 1, Min(o + page_size, total)>>

PageLen(block) == IF block = <<>> THEN 0 ELSE Size(block)

\* len(all_markets_raw)
RECURSIVE RawLen(_)
RawLen(pages) ==
  IF pages = <<>> THEN 0 ELSE PageLen(pages[1]) + RawLen(Tail(pages))

\* offset += page_size
NextOffset_stuck(o) == o

NextOffset(o) == o + page_size

\* len(all_markets_raw[:limit] if limit < len(all_markets_raw) else
\* all_markets_raw), for a limit that is not negative.
Sliced(n, lim) == IF lim < n THEN lim ELSE n

FetchInit ==
  /\ fetch_pc = "idle"
  /\ limit = 0
  /\ listing = 0
  /\ offset = 0
  /\ all_markets_raw = <<>>
  /\ requested = <<>>
  /\ markets_raw = 0

\* The loop test 'while len(all_markets_raw) < limit' and, when it fails, the
\* slice behind the loop: no await lies between them.
loop_test(raw, lim) ==
  IF RawLen(raw) < lim
  THEN /\ fetch_pc' = "requesting"
       /\ UNCHANGED markets_raw
  ELSE /\ fetch_pc' = "returned"
       /\ markets_raw' = Sliced(RawLen(raw), lim)

\* fetch_active_markets(limit) up to its first await.
FetchActiveMarkets ==
  /\ fetch_pc = "idle"
  /\ \E lim \in Limits, total \in Listings :
       /\ limit' = lim
       /\ listing' = total
       /\ loop_test(<<>>, lim)
  /\ UNCHANGED <<offset, all_markets_raw, requested>>
  /\ UNCHANGED <<writerVars, wsVars, pipeVars, orchVars>>

\* 'await self.http_client.get(url, params)' is over: the request or
\* raise_for_status raised, or the page has arrived; an empty page and a page
\* shorter than page_size leave the loop.
FetchPage ==
  /\ fetch_pc = "requesting"
  /\ requested' = Append(requested, offset)
  /\ \E ok \in BOOLEAN :
       LET batch == Page(listing, offset) IN
       IF ~ok
       THEN /\ fetch_pc' = "raised"
            /\ UNCHANGED <<offset, all_markets_raw, markets_raw>>
       ELSE IF batch = <<>>
       THEN /\ fetch_pc' = "returned"
            /\ markets_raw' = Sliced(RawLen(all_markets_raw), limit)
            /\ UNCHANGED <<offset, all_markets_raw>>
       ELSE /\ all_markets_raw' = Append(all_markets_raw, batch)
            /\ offset' = NextOffset(offset)
            /\ IF PageLen(batch) < page_size
               THEN /\ fetch_pc' = "returned"
                    /\ markets_raw' = Sliced(RawLen(all_markets_raw'), limit)
               ELSE loop_test(all_markets_raw', limit)
  /\ UNCHANGED <<limit, listing>>
  /\ UNCHANGED <<writerVars, wsVars, pipeVars, orchVars>>

FetchNext ==
  \/ FetchActiveMarkets
  \/ FetchPage

Init == WriterInit /\ WsInit /\ PipeInit /\ OrchInit /\ FetchInit

SpecWriter == Init /\ [][WriterNext]_vars

SpecWS == Init /\ [][WsNext]_vars

SpecPipe == Init /\ [][PipeNext]_vars

SpecListen == Init /\ [][ListenLoop]_vars

SpecOrch == Init /\ [][OrchNext]_vars

SpecResync == Init /\ [][ResyncNext]_vars

\* The event loop runs every task that is ready: a coroutine whose await has
\* completed is resumed, a sleep that has elapsed wakes its loop, and a connect
\* attempt ends one way or the other.  Nothing obliges the user to start or to
\* stop, the peer to send a frame or to close the transport.
OrchFairness ==
  /\ WF_vars(InitialSync)
  /\ WF_vars(StartTasks)
  /\ WF_vars(RwConnectFail \/ RwConnectOk)
  /\ WF_vars(RwSubscribeBatch)
  /\ WF_vars(LtEnd)
  /\ WF_vars(RwDone)
  /\ WF_vars(FlusherWakes)
  /\ WF_vars(MarketSyncWakes)
  /\ WF_vars(StatsReporterWakes)
  /\ WF_vars(StopWsClosed)
  /\ WF_vars(StopRestClosed)
  /\ WF_vars(Gathered)

SpecOrchLive == SpecOrch /\ OrchFairness

SpecFetch == Init /\ [][FetchNext]_vars

\* The request in flight ends: the HTTP client has a timeout of 30 seconds.
SpecFetchLive == SpecFetch /\ WF_vars(FetchPage)

\* ================================================================== claims

RECURSIVE Pow2(_)
Pow2(n) == IF n = 0 THEN 1 ELSE 2 * Pow2(n - 1)

\* The rows submitted to a table, over every insert call or only those that
\* succeeded, in submission order.
RECURSIVE Rows(_, _, _)
Rows(log, table, onlyOk) ==
  IF log = <<>> THEN <<>>
  ELSE IF log[1].table = table /\ (log[1].ok \/ ~onlyOk)
  THEN log[1].rows \o Rows(Tail(log), table, onlyOk)
  ELSE Rows(Tail(log), table, onlyOk)

TableOf(kind) ==
  IF kind = "trades" THEN "trades_raw"
  ELSE IF kind = "levels" THEN "orderbook_levels" ELSE "markets_dim"

BufferOf(kind) ==
  IF kind = "trades" THEN trade_buffer
  ELSE IF kind = "levels" THEN orderbook_levels_buffer ELSE market_buffer

\* The records of a kind that are due at the sink.
Due(kind) ==
  IF kind = "trades" THEN added.trades
  ELSE IF kind = "levels" THEN SelectSeq(added.levels, NotAllNull)
  ELSE added.markets

Kinds == {"trades", "levels", "markets"}

\* The rows of a batch that a flush of the kind submits.
Submitted(kind, batch) ==
  IF kind = "levels" THEN SelectSeq(batch, NotAllNull) ELSE batch

SinkNeverFailed == \A k \in 1..Len(inserts) : inserts[k].ok

\* C1: when the sink never fails, right after a flush of a kind the batches
\* handed to the sink for that kind hold every record added so far, once each
\* and in order (for levels, those that are not all-null), so their sizes sum
\* to the number of adds.
C1_Lossless ==
  \A kind \in Kinds :
    (flushed.kind = kind /\ SinkNeverFailed) =>
      /\ Len(Rows(inserts, TableOf(kind), FALSE)) = Len(Due(kind))
      /\ Rows(inserts, TableOf(kind), FALSE) = Due(kind)

\* C2: a flush whose insert failed returns 0 and does not raise, leaves its
\* buffer empty (the batch is not put back), and has submitted the batch in one
\* insert call, the last one; no record is submitted more than once over all
\* calls, the records that earlier successful inserts delivered are still
\* delivered, and a following add is possible.
C2_FailedBatchDropped ==
  /\ \A kind \in Kinds :
       Len(Rows(inserts, TableOf(kind), FALSE)) + Len(Submitted(kind, BufferOf(kind)))
         <= Len(Due(kind))
  /\ (flushed.called /\ ~flushed.ok) =>
       /\ flushed.ret = 0
       /\ ~flushed.raised
       /\ BufferOf(flushed.kind) = <<>>
       /\ inserts[Len(inserts)] =
            Insert(TableOf(flushed.kind), Submitted(flushed.kind, flushed.batch), FALSE)
       /\ NAdds < MaxAdds => ENABLED BufferTrade

C2_Witness ==
  /\ flushed.kind = "trades" /\ flushed.called /\ ~flushed.ok
  /\ Len(flushed.batch) = 1
  /\ Len(Rows(inserts, "trades_raw", TRUE)) = 1
  /\ Len(added.trades) = 2

\* C3: while no close has been requested, the connection task never gives up:
\* after a failed connect attempt or a lost connection it goes on to a backoff
\* sleep and another attempt, so neither connect() nor the connection task the
\* orchestrator starts (_run_websocket) has ended while _running is still set.
C3_NeverGivesUp ==
  (ws_running /\ close_at = "never") => (pc # "done" /\ rw_pc # "done")

\* C4: in every session the first subscribe request carries the
\* full assigned token set and no inbound frame is handled before it.
C4_SubscribeFullOnConnect ==
  (Listening /\ ws = "open") =>
    /\ ~early_frame
    /\ sent # <<>> => sent[1].full

\* C5 (as claimed): the delay slept after the k-th consecutive failure is
\* 1, 2, 4, 8, 16 for k = 1..5 and the cap from the 6th on.
C5_SixthIsCap ==
  pc = "sleeping" =>
    slept = IF failures <= 5 THEN InitialDelay * Pow2(failures - 1)
            ELSE MaxReconnectDelay

\* C5 (amended): the delay slept after the k-th consecutive failure is
\* min(initial * 2^(k-1), cap) with the code's cap of 60, so 32 for the 6th and
\* 60 from the 7th on, and the delay always lies between the initial delay and
\* the cap.
C5_Backoff ==
  /\ InitialDelay <= reconnect_delay /\ reconnect_delay <= MaxReconnectDelay
  /\ pc = "sleeping" =>
       slept = Min(InitialDelay * Pow2(failures - 1), MaxReconnectDelay)

C5_Witness == pc = "sleeping" /\ failures = 7 /\ slept = MaxReconnectDelay

\* C6: right after a successful connect the reconnect delay is the initial
\* delay, so the first backoff sleep after a later loss of that connection is
\* the initial delay.
C6_ResetOnConnect ==
  /\ pc = "listening" => reconnect_delay = InitialDelay
  /\ (pc = "sleeping" /\ failures = 1) => slept = InitialDelay

C6_Witness == pc = "sleeping" /\ failures = 1 /\ connects = 2

\* C7: after close() was called on a listening connection the running flag is
\* false and the transport closed; the listening loop can only end (it is
\* enabled to), without raising, and no backoff sleep or connect attempt follows.
C7_CloseWhileListening ==
  close_at = "listening" =>
    /\ ~ws_running
    /\ ws = "closed"
    /\ pc \in {"idle", "listening", "done"}
    /\ lt_pc \in {"none", "listening", "done"}
    /\ rw_pc # "connecting"
    /\ pc = "listening" => ENABLED ListenEnd
    /\ lt_pc = "listening" => ENABLED LtEnd

C7_Witness == close_at = "listening" /\ pc = "done" /\ ws = "closed"

\* The shards _run_websocket has cut the token list into.
Shards == [k \in 1..CeilDiv(Min(rw_i, token_ids), batch_size) |->
             Batch((k - 1) * batch_size, token_ids)]

\* C8: once the token list has been partitioned, the shards are contiguous,
\* cover every token exactly once, number at most max_ws_connections, and
\* differ in size by at most one when the token count exceeds
\* ws_tokens_per_connection * max_ws_connections.
C8_Sharding ==
  (rw_pc \in {"awaiting_listen", "done"} /\ rw_i >= token_ids) =>
    /\ Len(Shards) <= max_ws_connections
    /\ Shards[1][1] = 1 /\ Shards[Len(Shards)][2] = token_ids
    /\ \A k \in 1..(Len(Shards) - 1) : Shards[k + 1][1] = Shards[k][2] + 1
    /\ token_ids > ws_tokens_per_connection * max_ws_connections =>
         \A k, m \in 1..Len(Shards) : Size(Shards[k]) - Size(Shards[m]) <= 1

\* The classification rule as the specification words it: by the type tag
\* when there is one, else by shape.
SpecClassify(event) ==
  LET ty == EventTypeOf(event) IN
  IF ty \in {"trade", "last_trade_price"} THEN "trade"
  ELSE IF ty = "book" THEN "book"
  ELSE IF ty # "" THEN "other"
  ELSE IF DOMAIN event \cap {"bids", "asks"} # {} THEN "book"
  ELSE IF {"price", "size", "side"} \subseteq DOMAIN event THEN "trade"
  ELSE "other"

CountOf(events, class) ==
  Cardinality({k \in 1..Len(events) : SpecClassify(events[k]) = class})

\* C9: of a frame handled without error, every event with a trade tag, and
\* every untagged event with price, size and side and no bid/ask arrays, has
\* yielded a trade, and every event with a book tag or with bid/ask arrays and
\* no tag has yielded a book snapshot; the frame {"price":"0.42","size":"10",
\* "side":"BUY"} yields one trade of price 0.42, size 10, side BUY.
C9_ClassifyByShape ==
  (frames > 0 /\ last.frame.json /\ last.error = "none") =>
    /\ Len(last.trades) = CountOf(last.frame.events, "trade")
    /\ Len(last.books) = CountOf(last.frame.events, "book")
    /\ last.frame.events = <<UntaggedTrade>> =>
         /\ Len(last.trades) = 1
         /\ last.trades[1].price = 42
         /\ last.trades[1].size = 1000
         /\ last.trades[1].side = "BUY"

TradeEventsOf(events) ==
  SelectSeq(events, LAMBDA e : EventTypeOf(e) \in {"trade", "last_trade_price"})

\* C10: of a frame handled without error, each trade event has yielded exactly
\* one trade record, whose side is UNKNOWN when the event has none, which
\* carries an exchange_ts, and whose local_ts is the time the frame was received.
C10_TradeLocalTs ==
  (frames > 0 /\ last.frame.json /\ last.error = "none") =>
    /\ Len(last.trades) = Len(TradeEventsOf(last.frame.events))
    /\ \A i \in 1..Len(last.trades) :
         /\ "side" \notin DOMAIN TradeEventsOf(last.frame.events)[i]
              => last.trades[i].side = "UNKNOWN"
         /\ HasKeys(last.trades[i], {"local_ts", "exchange_ts"})
         /\ last.trades[i].local_ts = last.receipt

BookEventsOf(events) == SelectSeq(events, LAMBDA e : EventTypeOf(e) = "book")

\* The entries of one side of a book event that carry a price and a size.
ValidCount(entries) ==
  Cardinality({k \in 1..Len(entries) :
                 /\ "price" \in DOMAIN entries[k] /\ Truthy(entries[k].price)
                 /\ "size" \in DOMAIN entries[k] /\ Truthy(entries[k].size)})

BidCount(event) == ValidCount(Get(event, "bids", <<>>))

AskCount(event) == ValidCount(Get(event, "asks", <<>>))

\* A frame was decoded and handled to its end.
Handled == frames > 0 /\ last.frame.json /\ last.error = "none"

ValidPrices(entries) ==
  {Float(entries[k].price) : k \in
     {j \in 1..Len(entries) :
        /\ "price" \in DOMAIN entries[j] /\ Truthy(entries[j].price)
        /\ "size" \in DOMAIN entries[j] /\ Truthy(entries[j].size)}}

\* C12: in the levels emitted for one book snapshot, whatever the order of the
\* input, levels are numbered 1, 2, ...; bid prices do not increase and ask
\* prices do not decrease from one rank to the next where both ranks carry the
\* side; rank 1 carries the highest bid and the lowest ask of the snapshot.
C12_LevelsOrdered ==
  Handled =>
    \A i \in 1..Len(last.books) :
      LET event == BookEventsOf(last.frame.events)[i]
          levels == last.books[i].levels
          bids == ValidPrices(Get(event, "bids", <<>>))
          asks == ValidPrices(Get(event, "asks", <<>>))
      IN /\ \A k \in 1..Len(levels) : levels[k].level = k
         /\ \A k \in 1..(Len(levels) - 1) :
              /\ (levels[k].bid_px # None /\ levels[k + 1].bid_px # None)
                   => levels[k].bid_px[1] >= levels[k + 1].bid_px[1]
              /\ (levels[k].ask_px # None /\ levels[k + 1].ask_px # None)
                   => levels[k].ask_px[1] <= levels[k + 1].ask_px[1]
         /\ bids # {} =>
              /\ levels[1].bid_px # None
              /\ \A px \in bids : levels[1].bid_px[1] >= px
              /\ last.books[i].bbo.bid_px = levels[1].bid_px
         /\ asks # {} =>
              /\ levels[1].ask_px # None
              /\ \A px \in asks : levels[1].ask_px[1] <= px
              /\ last.books[i].bbo.ask_px = levels[1].ask_px

C12_Witness ==
  /\ Handled
  /\ Len(last.books) = 1
  /\ last.frame.events[1].bids = <<Entry(55, 3), Entry(60, 5)>>
  /\ last.frame.events[1].asks = <<Entry(63, 1), Entry(61, 2)>>
  /\ last.books[1].levels[1].bid_px = Some(60)
  /\ last.books[1].levels[2].bid_px = Some(55)
  /\ last.books[1].levels[1].ask_px = Some(61)
  /\ last.books[1].levels[2].ask_px = Some(63)

\* Nothing but a timestamp can fail in the frame: every price and size parses.
NumbersOk(events) ==
  \A k \in 1..Len(events) :
    /\ EventTypeOf(events[k]) \in {"trade", "last_trade_price"} =>
         /\ FloatOk(Get(events[k], "price", Num(0)))
         /\ FloatOk(Get(events[k], "size", Num(0)))
    /\ EventTypeOf(events[k]) = "book" =>
         /\ \A j \in 1..Len(Get(events[k], "bids", <<>>)) : EntryOk(events[k].bids[j])
         /\ \A j \in 1..Len(Get(events[k], "asks", <<>>)) : EntryOk(events[k].asks[j])

\* The venue timestamp is absent, an integer or a string of digits.
EpochOrAbsent(event) ==
  TsValue(event) = None \/ TsValue(event)[1].t \in {"int", "digits"}

\* C13: a timestamp never fails the frame: when nothing else is wrong with a
\* decoded frame, every trade event whose venue timestamp is absent or epoch
\* milliseconds yields its trade even if another event of the frame carries an
\* unparseable timestamp, and nothing is raised; a trade with an integer or
\* numeric-string timestamp gets that time, one with none the receipt time.
C13_TimestampNeverFailsFrame ==
  (frames > 0 /\ last.frame.json /\ NumbersOk(last.frame.events)) =>
    /\ last.error = "none"
    /\ Len(last.trades) >=
         Len(SelectSeq(TradeEventsOf(last.frame.events), EpochOrAbsent))
    /\ Len(last.trades) = Len(TradeEventsOf(last.frame.events)) =>
         \A i \in 1..Len(last.trades) :
           LET x == TsValue(TradeEventsOf(last.frame.events)[i]) IN
           /\ x = None => last.trades[i].ts = last.receipt
           /\ (x # None /\ x[1].t \in {"int", "digits"}) => last.trades[i].ts = x[1].v

\* The events of a frame are all of a type the handlers do not know.
AllUnknown(events) ==
  /\ events # <<>>
  /\ \A k \in 1..Len(events) : Classify(events[k]) = "unknown"

\* C14: the listen loop survives every frame: after a frame of unknown events
\* no callback was invoked, nothing was buffered and nothing raised; after an
\* undecodable or malformed frame the loop is still listening, a further frame
\* can be taken, and a well-formed frame that follows a discarded one has each
\* of its tagged events handled.
C14_DiscardAndContinue ==
  frames > 0 =>
    /\ last.loop = "listening"
    /\ frames < MaxListen => ENABLED ListenLoop
    /\ (last.frame.json /\ AllUnknown(last.frame.events)) =>
         /\ last.error = "none" /\ last.trades = <<>> /\ last.books = <<>>
    /\ last.error # "none" =>
         /\ Len(last.trades) <= Len(TradeEventsOf(last.frame.events))
         /\ Len(last.books) <= Len(BookEventsOf(last.frame.events))
    /\ (last.prev # "none" /\ last.error = "none") =>
         /\ Len(last.trades) = Len(TradeEventsOf(last.frame.events))
         /\ Len(last.books) = Len(BookEventsOf(last.frame.events))
    /\ stats.trades_received = Len(added.trades)
    /\ stats.levels_received = Len(added.levels)

C14_Witness ==
  /\ frames = 2
  /\ last.prev = "ValueError"
  /\ last.error = "none"
  /\ Len(last.trades) = 2
  /\ Len(trade_buffer) = 3

RECURSIVE RawLevels(_)
RawLevels(books) ==
  IF books = <<>> THEN <<>> ELSE Head(books).levels \o RawLevels(Tail(books))

\* What the handlers hand to the callbacks for each frame (received at time
\* 0: the time plays no part in enrichment).
Handed ==
  [data \in FrameSet |->
     HandleEvents(data.events, 0, 0, [trades |-> <<>>, books |-> <<>>, error |-> "none"])]

\* The trades and the levels the handlers can hand to the callbacks.
HandedItems ==
  UNION {{Handed[data].trades[i] : i \in 1..Len(Handed[data].trades)}
           \cup {RawLevels(Handed[data].books)[k] :
                   k \in 1..Len(RawLevels(Handed[data].books))} : data \in FrameSet}

\* P holds of every item the handlers can hand to the callbacks.
ForAllHanded(P(_)) == \A item \in HandedItems : P(item)

Idempotent(item) ==
  enrich_market_info(enrich_market_info(item)) = enrich_market_info(item)

\* C15: with the lookup tables of any reachable state, enriching a record a
\* second time leaves it as the first enrichment made it.
C15_EnrichIdempotent == ForAllHanded(Idempotent)

C15_Witness ==
  /\ "tok" \in DOMAIN token_to_market
  /\ frames = 1
  /\ Len(added.trades) = 1
  /\ added.trades[1].condition_id = "c1"
  /\ "category" \in DOMAIN added.trades[1]
  /\ last.trades[1].condition_id = ""

EnrichedAsSpecified(item) ==
  LET condition_id == Get(token_to_market, Get(item, "token_id", ""), "")
      market_data == Get(markets, condition_id, <<>>)
      after == enrich_market_info(item)
  IN condition_id # "" =>
       /\ after.condition_id = condition_id
       /\ item.market_id \in {"", condition_id} =>
            after.market_id = Get(market_data, "market_id", "")
       /\ item.market_id \notin {"", condition_id} => after.market_id = item.market_id
       /\ "computed_category" \in DOMAIN market_data =>
            /\ "category" \in DOMAIN after
            /\ after.category = market_data.computed_category

\* C16: a record whose token is in the table gets the table's condition id;
\* its market_id is overwritten exactly when it is empty or equal to the
\* condition id and is otherwise kept; the computed category is attached when
\* the market has one.
C16_EnrichRule == ForAllHanded(EnrichedAsSpecified)

Miss(item) == Get(token_to_market, Get(item, "token_id", ""), "") = ""

\* The last n elements of a sequence.
LastN(s, n) == SubSeq(s, Len(s) - n + 1, Len(s))

\* C17: every trade and every level handed to the callbacks while a frame is
\* handled is appended to its buffer, and one whose token is not in the table is
\* appended exactly as it was handed over.
C17_MissStillBuffered ==
  [][frames' = frames + 1 =>
       LET trades == last'.trades
           levels == RawLevels(last'.books)
       IN /\ Len(trade_buffer') = Len(trade_buffer) + Len(trades)
          /\ Len(orderbook_levels_buffer') = Len(orderbook_levels_buffer) + Len(levels)
          /\ \A i \in 1..Len(trades) :
               Miss(trades[i]) => LastN(trade_buffer', Len(trades))[i] = trades[i]
          /\ \A i \in 1..Len(levels) :
               Miss(levels[i]) =>
                 LastN(orderbook_levels_buffer', Len(levels))[i] = levels[i]]_vars

C17_Witness ==
  /\ frames = 1
  /\ syncs = 1
  /\ token_to_market = <<>>
  /\ Len(last.trades) = 1
  /\ last.trades[1].token_id = "tok"
  /\ last.trades[1].market_id = ""
  /\ trade_buffer = last.trades

C19_EmptyFlushNoOp ==
  [][\A kind \in Kinds :
       (flushed'.kind = kind /\ BufferOf(kind) = <<>>) =>
         /\ flushed'.ret = 0
         /\ ~flushed'.raised
         /\ ~flushed'.called
         /\ UNCHANGED <<trade_buffer, orderbook_levels_buffer, market_buffer, inserts>>]_vars

C19_Witness ==
  /\ flushed.kind = "markets"
  /\ flushed.batch = <<>>
  /\ ~flushed.called
  /\ Len(inserts) = 1
  /\ Len(added.markets) = 1
  /\ trade_buffer # <<>>

\* C20: no level whose four price/size fields are all null is ever in a batch
\* submitted to the sink, and a flush of levels submits every level of the
\* swapped-out batch that has at least one of the four fields.
C20_AllNullFiltered ==
  /\ \A k \in 1..Len(inserts) :
       inserts[k].table = "orderbook_levels" =>
         \A j \in 1..Len(inserts[k].rows) : ~AllNull(inserts[k].rows[j])
  /\ (flushed.kind = "levels" /\ flushed.batch # <<>>) =>
       /\ flushed.called
       /\ inserts[Len(inserts)].table = "orderbook_levels"
       /\ inserts[Len(inserts)].rows = SelectSeq(flushed.batch, NotAllNull)

TokensOf(listed) ==
  UNION {{listed[i].clob_token_ids[j] : j \in 1..Len(listed[i].clob_token_ids)} :
           i \in 1..Len(listed)}

\* A step in which a _sync_markets whose fetch succeeded completes
SyncCompletes == syncs' # syncs /\ ~fetch_error'

\* A step in which _listen handles a frame (on_trade, on_book, enrichment)
FrameHandled == frames' # frames

\* C22: after a sync completes, the resolution table maps exactly the tokens of
\* the markets that sync fetched, and the handling of a frame never changes
\* the table or the known markets.
C22_TableRebuiltWholesale ==
  [][ /\ SyncCompletes =>
           DOMAIN token_to_market' =
             TokensOf(LastN(added'.markets, stats'.markets_synced))
      /\ FrameHandled => UNCHANGED <<token_to_market, markets>> ]_vars

\* The steps of stop() in program order: the running flag, the connection
\* close, the final flush, the close of the metadata client, the sink close.
StopSteps == <<"flag", "close", "flush", "rest", "sink">>

IsPrefix(s, t) == Len(s) <= Len(t) /\ s = SubSeq(t, 1, Len(s))

\* stop() is over: it has returned, raised, or was cancelled with the loop.
StopOver == stop_pc \in {"done", "raised"} \/ (stop_pc # "idle" /\ ~LoopAlive)

\* C23: stop() clears the running flag, closes the connection, flushes all
\* kinds once, closes the metadata client and the sink, in this order, and
\* returns: the final flush never starts before the connection close has
\* completed, the sink is never closed before the final flush has finished, and
\* a stop() that is over has performed all five steps.
C23_ShutdownSequence ==
  /\ IsPrefix(shutdown, StopSteps)
  /\ stop_pc = "closing_ws" => shutdown = <<"flag">>
  /\ client = "closed" => IsPrefix(<<"flag", "close", "flush">>, shutdown)
  /\ StopOver => shutdown = StopSteps

\* None of the four tasks has been created.
NoTasks ==
  /\ \A t \in Loops : tasks[t] = "none"
  /\ rw_pc = "idle" /\ lt_pc = "none" /\ ws = "none"

\* The step of start() from the return of the initial sync to its return or to
\* asyncio.gather
StartDecides == start_pc = "synced" /\ start_pc' # "synced"

\* C24 as stated: when the initial sync has resolved no token, start() returns
\* without creating a task; when the sink cannot be reached, no task is
\* created.
C24_NoTokensFromSync ==
  [][ /\ (StartDecides /\ DOMAIN token_to_market = {}) =>
           (start_pc' = "returned" /\ NoTasks')
      /\ start_pc' = "raised" => NoTasks' ]_vars

\* C24 as the code has it: start() returns without creating a task exactly
\* when the token list it ends up with is empty.  That list is the keys of the
\* resolution table after the initial sync, or what the sink query returned
\* when a category filter is configured and the query succeeded.  When the sink
\* cannot be reached start() raises and no task is created.
C24_NoTokensNoTasks ==
  [][ /\ StartDecides =>
           /\ (sub_ids' = {}) <=> (start_pc' = "returned" /\ NoTasks')
           /\ sub_ids' # {} => start_pc' = "gathering"
           /\ category_filter = "" => sub_ids' = DOMAIN token_to_market
           /\ sub_ids' \subseteq DOMAIN token_to_market'
      /\ start_pc' = "raised" => (NoTasks' /\ client' = "none")
      /\ start_pc' = "returned" /\ sub_ids' = {} => NoTasks' ]_vars

\* The fetch of the initial sync failed, no token, and start() has returned.
C24_Witness ==
  /\ start_pc = "returned" /\ syncs = 1 /\ fetch_error
  /\ category_filter = "" /\ sub_ids = {} /\ ws_client
  /\ NoTasks

\* C25: a metadata sync leaves the connection where it is: the transport, its
\* running flag, the subscribed tokens, the token list of _run_websocket and
\* the positions of the connection tasks are unchanged and no message is sent,
\* whatever tokens the sync has discovered.
C25_ResyncLeavesConnection ==
  [][ syncs' # syncs =>
        UNCHANGED <<ws, ws_running, subscribed_tokens, sent, sub_ids, token_ids,
                    rw_pc, rw_i, lt_pc, pc>> ]_vars

\* A sync has found a token that is not subscribed while the connection
\* listens, and the only message sent is the subscription of _run_websocket.
C25_Witness ==
  /\ syncs = 2 /\ ~fetch_error
  /\ ws = "open" /\ lt_pc = "listening" /\ rw_pc = "awaiting_listen"
  /\ "tok5" \in DOMAIN token_to_market /\ "tok5" \notin sub_ids
  /\ Len(sent) = 1 /\ sent[1].by = "subscribe"

\* A step in which a periodic _sync_markets ends with a failed fetch
ResyncFails == syncs' # syncs /\ syncs > 0 /\ fetch_error'

\* C26: a metadata fetch that fails during a periodic resync is not fatal.  The
\* resolution table, the known markets, the buffers and the counters are as
\* before the sync, the resync loop is back at its sleep (from where it syncs
\* again), the connection, the flush loop and the stats loop are where they
\* were, and start() is still waiting on its tasks.
C26_ResyncFailureNotFatal ==
  [][ ResyncFails =>
        /\ UNCHANGED <<markets, token_to_market, stats>>
        /\ UNCHANGED <<trade_buffer, orderbook_levels_buffer, market_buffer,
                       inserts, added>>
        /\ tasks'.market_sync = "sleeping"
        /\ tasks' = tasks
        /\ UNCHANGED <<ws, ws_running, rw_pc, lt_pc, subscribed_tokens, sent>>
        /\ start_pc' = "gathering" /\ orch_running' ]_vars

\* The fetch of the first resync failed with two markets known and the
\* connection listening; the next resync succeeded.
C26_Witness ==
  /\ syncs = 3 /\ ~fetch_error /\ category_filter = ""
  /\ Len(added.markets) = 4 /\ stats.markets_synced = 2
  /\ inserts # <<>> /\ Len(inserts) = 2
  /\ "tok5" \in DOMAIN token_to_market
  /\ ws = "open" /\ lt_pc = "listening"
  /\ tasks.market_sync = "sleeping" /\ tasks.flusher = "sleeping"

\* What identifies a trade event and the record made of it
EventKey(event) ==
  <<Get(event, "asset_id", Get(event, "asset", "")), Get(event, "side", "UNKNOWN"),
    Get(event, "id", Get(event, "trade_id", <<"none">>))>>

RecordKey(trade) ==
  <<trade.token_id, trade.side,
    IF trade.trade_id[1] = "ts" THEN <<"none">> ELSE trade.trade_id>>

\* The records a step has added at the end of a buffer
NewIn(before, after) == SubSeq(after, Len(before) + 1, Len(after))

\* C27: the records of one frame enter the buffers in receipt order (the
\* trades in the order of their events in the frame, the levels of a snapshot
\* by rank, the snapshots in the order of their events) behind what the buffers
\* held; each buffer is at all times the tail of what was added, in the order
\* of adding; and a flush swaps out the whole buffer in that order and submits
\* its rows in that order.
C27_ReceiptOrder ==
  [][ /\ trade_buffer' = LastN(added'.trades, Len(trade_buffer'))
      /\ orderbook_levels_buffer' =
           LastN(added'.levels, Len(orderbook_levels_buffer'))
      /\ market_buffer' = LastN(added'.markets, Len(market_buffer'))
      /\ FrameHandled =>
           LET trades == NewIn(trade_buffer, trade_buffer')
               levels == NewIn(orderbook_levels_buffer, orderbook_levels_buffer')
               tevents == TradeEventsOf(last'.frame.events)
               bevents == BookEventsOf(last'.frame.events)
           IN /\ trade_buffer' = trade_buffer \o trades
              /\ orderbook_levels_buffer' = orderbook_levels_buffer \o levels
              /\ Len(trades) <= Len(tevents)
              /\ \A i \in 1..Len(trades) : RecordKey(trades[i]) = EventKey(tevents[i])
              /\ Len(levels) <= MaxLevels * Len(bevents)
              /\ \A i \in 1..Len(levels) :
                   /\ levels[i].level = ((i - 1) % MaxLevels) + 1
                   /\ levels[i].token_id =
                        Get(bevents[((i - 1) \div MaxLevels) + 1], "asset_id", "")
      /\ (syncs' = syncs /\ frames' = frames /\ flushed'.kind # "none") =>
           /\ flushed'.batch = BufferOf(flushed'.kind)
           /\ flushed'.called =>
                inserts'[Len(inserts')].rows = Submitted(flushed'.kind, flushed'.batch)
    ]_vars

\* A frame of two trades was buffered and the flush swapped both out.
C27_Witness ==
  /\ frames = 1 /\ Len(last.trades) = 2
  /\ RecordKey(last.trades[1]) # RecordKey(last.trades[2])
  /\ flushed.kind = "trades" /\ Len(flushed.batch) = 2
  /\ RecordKey(flushed.batch[1]) = RecordKey(last.trades[1])

\* The computed category of the market a token belongs to, by the tables: a
\* market entered from a row of the filter query has the category of the query.
CategoryOf(tok, mk, t2m, filter) ==
  LET market == mk[t2m[tok]] IN
  IF "computed_category" \in DOMAIN market THEN market.computed_category
  ELSE filter

\* C28: with a category filter configured, every token start() hands to the
\* connection task belongs to a market whose computed category is the filter,
\* whether the sink query succeeds or not.
C28_FilterRestricts ==
  [][ (StartDecides /\ category_filter # "" /\ start_pc' = "gathering") =>
        \A tok \in sub_ids' :
          /\ tok \in DOMAIN token_to_market'
          /\ CategoryOf(tok, markets', token_to_market', category_filter)
               = category_filter ]_vars

\* start() has returned and none of the tasks it created is left: the stream
\* connection task and the three loops are over (or were never created).
PipelineOver ==
  /\ start_pc = "returned"
  /\ rw_pc \in {"idle", "done"}
  /\ \A t \in Loops : tasks[t] \in {"none", "done"}

\* C29: once stop() has been invoked, whatever the pipeline is doing at that
\* moment, the stream connection task, the flush loop, the resync loop and
\* the stats loop all eventually terminate and start() returns.
C29_ShutdownCompletes == (stop_pc # "idle") ~> PipelineOver

\* C30: every trade and order-book level record the handlers produce and the
\* orchestrator buffers carries all the fields the flush reads, so that no
\* flush raises while building its rows and the batch it swapped out reaches
\* the sink insert.
C30_RecordsFlushable ==
  /\ \A i \in 1..Len(trade_buffer) :
       HasKeys(trade_buffer[i], TradeRequiredKeys)
  /\ \A i \in 1..Len(orderbook_levels_buffer) :
       HasKeys(orderbook_levels_buffer[i], LevelRequiredKeys)
  /\ ~flushed.raised
  /\ (flushed.kind \in {"trades", "levels"} /\ flushed.batch # <<>>) =>
       flushed.called

\* C31: when stop() has returned, no trade and no order-book level remains in
\* a buffer: nothing is appended to a buffer after the final flush has
\* swapped it out.
C31_FinalFlushDrains ==
  stop_pc = "done" =>
    /\ trade_buffer = <<>>
    /\ orderbook_levels_buffer = <<>>

\* C32: stop() always reaches the closing of the metadata client and of the
\* sink: no failure of the final flush leaves stop() before
\* rest_client.close() and writer.close() have been executed.
C32_StopReachesCloses ==
  /\ stop_pc # "raised"
  /\ stop_pc = "done" => (http_client = "closed" /\ client = "closed")

\* C33: a close() that arrives while the connection is not yet listening (a
\* connect attempt in flight, or a backoff sleep) wins: afterwards the
\* connection never listens and no transport is open.
C33_EarlyCloseWins ==
  close_at \in {"connecting", "sleeping"} =>
    /\ ~Listening
    /\ ws # "open"

\* C34: once stop() has cleared the running flag, no periodic loop starts
\* another unit of work: the flush loop performs no further flush_all and the
\* resync loop no further metadata sync.
C34_NoWorkAfterStop ==
  [][ stop_pc # "idle" => ~(FlusherWakes \/ MarketSyncWakes) ]_vars

\* Whether a is b with some elements left out (order kept, each element of b
\* used at most once).
RECURSIVE IsSubseq(_, _)
IsSubseq(a, b) ==
  IF a = <<>> THEN TRUE
  ELSE IF b = <<>> THEN FALSE
  ELSE IF a[1] = b[1] THEN IsSubseq(Tail(a), Tail(b))
  ELSE IsSubseq(a, Tail(b))

\* C35: however the flushes of a kind interleave with each other and with the
\* buffering, every buffered record is in the batch of at most one flush: the
\* rows submitted to the sink for the kind (in all insert calls, failed ones
\* included), followed by what is still buffered, are the records added with
\* some left out, none of them twice.
C35_AtMostOnce ==
  \A kind \in Kinds :
    IsSubseq(Rows(inserts, TableOf(kind), FALSE) \o Submitted(kind, BufferOf(kind)),
             Due(kind))

\* Two flushes of the same kind have called the sink, the first of them in
\* vain, and a record is buffered again.
C35_Witness ==
  \E kind \in Kinds : \E i, j \in 1..Len(inserts) :
    /\ i < j
    /\ inserts[i].table = TableOf(kind)
    /\ inserts[j].table = TableOf(kind)
    /\ ~inserts[i].ok
    /\ BufferOf(kind) # <<>>

\* C36: the count a flush returns equals the number of rows it handed to the
\* sink in a successful insert, and is 0 when the insert failed.
C36_CountIsRowsWritten ==
  flushed.called =>
    flushed.ret = IF flushed.ok THEN Len(inserts[Len(inserts)].rows) ELSE 0

\* C37: the sink insert is never called with an empty batch: every call of
\* client.insert passes at least one row.
C37_NoEmptyInsert ==
  \A k \in 1..Len(inserts) : inserts[k].rows # <<>>

\* The insert calls a step has added to the log.
NewInserts(table) ==
  {k \in (Len(inserts) + 1)..Len(inserts') : inserts'[k].table = table}

\* C38: trades_written <= trades_received and levels_written <=
\* levels_received in every state; a written counter never shrinks, and it
\* grows only by the size of the batch a flush has swapped out of the buffer
\* and whose sink insert succeeded.
C38_StatsInvariant ==
  /\ [](stats.trades_written <= stats.trades_received)
  /\ [](stats.levels_written <= stats.levels_received)
  /\ [][ /\ stats'.trades_written >= stats.trades_written
         /\ stats'.levels_written >= stats.levels_written
         /\ stats'.trades_written > stats.trades_written =>
              /\ stats'.trades_written - stats.trades_written = Len(trade_buffer)
              /\ \E k \in NewInserts("trades_raw") : inserts'[k].ok
         /\ stats'.levels_written > stats.levels_written =>
              /\ stats'.levels_written - stats.levels_written
                   = Len(orderbook_levels_buffer)
              /\ \E k \in NewInserts("orderbook_levels") : inserts'[k].ok
       ]_vars

\* A flusher round has counted a batch as written.
C38_Witness ==
  /\ stats.levels_written > 0
  /\ stats.levels_written <= stats.levels_received
  /\ \E k \in 1..Len(inserts) : inserts[k].table = "orderbook_levels"

\* _run_websocket has got its connection and attempted at least one batch.
Batched ==
  \/ rw_pc \in {"subscribing", "awaiting_listen"}
  \/ rw_pc = "done" /\ lt_pc # "none"

\* C39: _run_websocket cuts the token list into contiguous batches of at most
\* 1000 tokens in list order, ceil(N/1000) of them, each token in exactly one;
\* a failed batch does not stop the following ones; and a batch is counted as
\* successful only if its subscribe message was sent on the open transport.
C39_Batching ==
  Batched =>
    /\ \A b \in subscribed_tokens :
         /\ b \in AllBatches(token_ids)
         /\ Size(b) <= batch_size
    /\ Cardinality(subscribed_tokens) = successful_batches + failed_batches
    /\ rw_pc # "subscribing" =>
         Cardinality(subscribed_tokens) = CeilDiv(token_ids, batch_size)
    /\ successful_batches = Len(sent)

\* The first n pages of all_markets_raw.
FirstPages(n) == SubSeq(all_markets_raw, 1, n)

\* C40: fetch_active_markets requests the offsets 0, page_size, 2*page_size,
\* ... in this order, none of them twice; it goes on only after a full page
\* and below the limit, so it stops after the first empty page, after the
\* first page shorter than page_size, or once the limit is reached; it
\* returns at most limit markets; and a call always ends, whether the listing
\* has an end or not.
C40_PaginatedFetch ==
  /\ [](\A i \in 1..Len(requested) : requested[i] = (i - 1) * page_size)
  /\ [](\A i \in 1..Len(all_markets_raw) :
          /\ all_markets_raw[i] = Page(listing, requested[i])
          /\ i < Len(requested) =>
               /\ PageLen(all_markets_raw[i]) = page_size
               /\ RawLen(FirstPages(i)) < limit)
  /\ [](fetch_pc = "requesting" => RawLen(all_markets_raw) < limit)
  /\ [](fetch_pc = "returned" =>
          /\ markets_raw <= limit
          /\ markets_raw = Sliced(RawLen(all_markets_raw), limit)
          /\ \/ RawLen(all_markets_raw) >= limit
             \/ /\ requested # <<>>
                /\ PageLen(Page(listing, requested[Len(requested)])) < page_size)
  /\ (fetch_pc = "requesting") ~> (fetch_pc \in {"returned", "raised"})

\* A call has returned after several requests on an endless listing, cut to its
\* limit.
C40_Witness ==
  /\ fetch_pc = "returned"
  /\ listing = Endless
  /\ Len(requested) >= 2
  /\ markets_raw = limit
  /\ RawLen(all_markets_raw) > limit

====
